---- MODULE Spec2Model ----
(***************************************************************************)
(* GroundFinder: the colour-analysis and masking pipeline                 *)
(* (backend/app/analysis.py, mask_ops.py, ground.py, color_ops.py) and    *)
(* the request handlers of backend/app/main.py that drive it.             *)
(*                                                                         *)
(* Units.  Lab / LCh coordinates, tolerances and chroma thresholds are    *)
(* integers in tenths (L* = 50.4 is 504); hue angles are tenths of a      *)
(* degree (0 .. 3599).  On this lattice the comparisons the code makes    *)
(* on floats are exact.                                                    *)
(*                                                                         *)
(* Images.  An array of shape h x w is a grid of gh x gw equal cells, the *)
(* array being constant on each cell (gh divides h, gw divides w); with   *)
(* gh = h and gw = w every pixel is its own cell.  All per-pixel code of  *)
(* the program is elementwise, so it is applied per cell, and every count *)
(* of pixels is a count of cells times the cell area.                     *)
(***************************************************************************)
EXTENDS Integers, Sequences, FiniteSets, TLC

VARIABLES store, issued, resp, running, put

vars == <<store, issued, resp, running, put>>

(***************************************************************************)
(* Program constants                                                       *)
(***************************************************************************)
MAX_ANALYSIS_EDGE == 1600
DEFAULT_K == 5
VALUE_BINS == 256
HUE_BINS == 360

\* Bounds of the model
MaxCells == 4
MaxAnalyses == 2
MaxThreads == 2

\* An optional value: None, or Some(v)
None == <<>>
Some(v) == <<v>>
Val(o) == o[1]

Max(a, b) == IF a >= b THEN a ELSE b

(***************************************************************************)
(* Arrays                                                                  *)
(***************************************************************************)
Cells(grid) == (1 .. grid[1]) \X (1 .. grid[2])

\* numpy array of shape `shape`, constant on the cells of `grid`
Array(shape, grid, at) == [shape |-> shape, grid |-> grid, at |-> at]

CellArea(arr) == (arr.shape[1] \div arr.grid[1]) * (arr.shape[2] \div arr.grid[2])

\* arr.size of a 2-d array (the product of its shape)
Size(arr) == arr.shape[1] * arr.shape[2]

\* np.count_nonzero(mask): the number of true pixels of a boolean array
CountTrue(mask) ==
    Cardinality({c \in Cells(mask.grid) : mask.at[c]}) * CellArea(mask)

\* arr == v, elementwise
EqualTo(arr, v) ==
    Array(arr.shape, arr.grid, [c \in Cells(arr.grid) |-> arr.at[c] = v])

\* arr[..., i]: channel i (1-based here) of an array of triples
Channel(arr, i) ==
    Array(arr.shape, arr.grid, [c \in Cells(arr.grid) |-> arr.at[c][i]])

\* the distinct values of an array
Values(arr) == {arr.at[c] : c \in Cells(arr.grid)}

(***************************************************************************)
(* color_ops.py                                                            *)
(***************************************************************************)
GREY == <<125, 119, 115>>
RED == <<255, 0, 0>>
SKY == <<100, 150, 200>>

\* rgb_to_lab on the colours of the model, in tenths, rounded to nearest:
\* (125,119,115) -> L 50.44 a 1.53 b 3.02; (255,0,0) -> 53.24, 80.09, 67.20;
\* (100,150,200) -> 60.51, -2.79, -30.93
rgb_to_lab(rgb) ==
    CASE rgb = GREY -> <<504, 15, 30>>
      [] rgb = RED -> <<532, 801, 672>>
      [] rgb = SKY -> <<605, -28, -309>>

\* np.sqrt(a*a + b*b) on the Lab values of the model, in tenths
Chroma(a, b) ==
    CASE a = 15 /\ b = 30 -> 34
      [] a = 801 /\ b = 672 -> 1046
      [] a = -28 /\ b = -309 -> 311

\* np.degrees(np.arctan2(b, a)) on the Lab values of the model, in tenths of
\* a degree, in (-1800, 1800]
Atan2Deg(a, b) ==
    CASE a = 15 /\ b = 30 -> 631
      [] a = 801 /\ b = 672 -> 400
      [] a = -28 /\ b = -309 -> -951

\* (angle + 360.0) % 360.0
HueOfAngle(d) == (d + 3600) % 3600

lab_to_lch(lab) == <<lab[1], Chroma(lab[2], lab[3]), HueOfAngle(Atan2Deg(lab[2], lab[3]))>>

(***************************************************************************)
(* analysis.py: the preprocessor                                           *)
(***************************************************************************)
\* An uploaded file: bytes that decode to an image, or bytes that do not.
ImageFile(img) == [readable |-> TRUE, image |-> img]
JunkFile == [readable |-> FALSE]

Ok(v) == [ok |-> TRUE, value |-> v]
Raise(type, msg) == [ok |-> FALSE, error |-> [type |-> type, msg |-> msg]]

\* Image.open(...).convert("RGB"): PIL raises UnidentifiedImageError on bytes
\* that are no raster image
load_image(file_bytes) ==
    IF file_bytes.readable THEN Ok(file_bytes.image) ELSE Raise("UnidentifiedImageError", "cannot identify image file")

pil_to_numpy(image) == image

\* The (dim, longer edge) pairs of the model's edge lengths on which the
\* double product dim * (1600 / longer) falls just below the integer that
\* dim * 1600 / longer is exactly, so that int() truncates to one less
\* (IEEE-754 binary64: 2156 * (1600 / 2156) = 1599.9999999999998).
FloatShortfall == {<<2156, 2156>>, <<1078, 2156>>, <<539, 2156>>}

\* int(dim * scale) with scale = max_edge / longer, both in binary64
IntScaled(dim, max_edge, longer) ==
    IF (dim * max_edge) % longer = 0 /\ <<dim, longer>> \in FloatShortfall
    THEN (dim * max_edge) \div longer - 1
    ELSE (dim * max_edge) \div longer

\* cv2.resize(img, (new_w, new_h), INTER_AREA): an empty dsize fails cv2's
\* assertion; area averaging keeps an array that is constant on cells
\* constant on the same grid of cells when the new size is a multiple of it
cv2_resize(img, new_w, new_h) ==
    IF new_w <= 0 \/ new_h <= 0
    THEN Raise("cv2.error", "resize: empty dsize")
    ELSE Ok(Array(<<new_h, new_w>>, img.grid, img.at))

\* A scale factor is the float max_edge / longer, kept as the pair; 1.0 is <<1, 1>>
ScaleOne == <<1, 1>>
IsOne(scale) == scale[1] = scale[2]

\* downsample_image measuring the shorter edge instead of the longer one
downsample_image_shorter_edge(img, max_edge) ==
    LET h == img.shape[1]
        w == img.shape[2]
        longer == IF h <= w THEN h ELSE w
    IN  IF longer > max_edge
        THEN LET scale == <<max_edge, longer>>
                 resized == cv2_resize(img, IntScaled(w, max_edge, longer),
                                       IntScaled(h, max_edge, longer))
             IN  IF resized.ok
                 THEN Ok([image |-> resized.value, scale |-> scale])
                 ELSE resized
        ELSE Ok([image |-> img, scale |-> ScaleOne])

downsample_image(img, max_edge) ==
    LET h == img.shape[1]
        w == img.shape[2]
        longer == Max(h, w)
    IN  IF longer > max_edge
        THEN LET scale == <<max_edge, longer>>
                 resized == cv2_resize(img, IntScaled(w, max_edge, longer),
                                       IntScaled(h, max_edge, longer))
             IN  IF resized.ok
                 THEN Ok([image |-> resized.value, scale |-> scale])
                 ELSE resized
        ELSE Ok([image |-> img, scale |-> ScaleOne])

(***************************************************************************)
(* analysis.py: histograms and temperature                                 *)
(***************************************************************************)
\* np.clip(v, lo, hi)
Clip(v, lo, hi) == IF v < lo THEN lo ELSE IF v > hi THEN hi ELSE v

\* The bin np.histogram(range=(lo, hi)) puts v in, for lo <= v <= hi: bins of
\* equal width, each closed on the left, the last one closed on the right too
BinOf(v, bins, lo, hi) ==
    IF v = hi THEN bins - 1 ELSE ((v - lo) * bins) \div (hi - lo)

\* np.histogram(arr, bins=bins, range=(lo, hi))[0]: values outside [lo, hi]
\* are not counted.  The histogram is kept as the function from the bins
\* that hold a pixel to their counts; every other bin of 0 .. bins - 1 is 0.
np_histogram(arr, bins, lo, hi) ==
    LET inside == {c \in Cells(arr.grid) : arr.at[c] >= lo /\ arr.at[c] <= hi}
    IN  [i \in {BinOf(arr.at[c], bins, lo, hi) : c \in inside} |->
            Cardinality({c \in inside : BinOf(arr.at[c], bins, lo, hi) = i}) * CellArea(arr)]

\* hist[i] for a bin i of 0 .. bins - 1
HistAt(hist, i) == IF i \in DOMAIN hist THEN hist[i] ELSE 0

\* compute_value_histogram without the np.clip
compute_value_histogram_unclipped(L, bins) == np_histogram(L, bins, 0, 1000)

compute_value_histogram(L, bins) ==
    np_histogram(Array(L.shape, L.grid, [c \in Cells(L.grid) |-> Clip(L.at[c], 0, 1000)]),
                 bins, 0, 1000)

compute_hue_histogram(H, bins) == np_histogram(H, bins, 0, 3600)

WARM == 0
COOL == 1
NEUTRAL == 2

\* classify_temperature on one pixel: cool, then warm stamped over it, then
\* neutral stamped over both
TemperatureOf(lch, warm_span, neutral_chroma) ==
    LET span == Clip(warm_span, 0, 1800)
        warm_upper == span
        warm_lower == (3600 - span) % 3600
    IN  IF lch[2] < neutral_chroma THEN NEUTRAL
        ELSE IF lch[3] <= warm_upper \/ lch[3] >= warm_lower THEN WARM
        ELSE COOL

classify_temperature(lch, warm_span, neutral_chroma) ==
    Array(lch.shape, lch.grid,
          [c \in Cells(lch.grid) |-> TemperatureOf(lch.at[c], warm_span, neutral_chroma)])

compute_temperature_map(lch, warm_span, neutral_chroma) ==
    classify_temperature(lch, warm_span, neutral_chroma)

\* _temperature_label: the class named on a ground suggestion, from the mean
\* LCh of the suggestion's pixels
_temperature_label(mean_lch) ==
    LET chroma == mean_lch[2]
        hue == mean_lch[3]
    IN  IF chroma < 80 THEN "neutral"
        ELSE IF hue <= 600 \/ hue >= 3000 THEN "warm"
        ELSE IF 600 < hue /\ hue < 2400 THEN "cool"
        ELSE "warm"

\* match_color: classify_temperature(lch.reshape(1, 1, 3), 60.0, 8.0)[0, 0]
\* and its name
temp_label(lch) ==
    LET temp_map == classify_temperature(Array(<<1, 1>>, <<1, 1>>,
                                               [c \in Cells(<<1, 1>>) |-> lch]), 600, 80)
        temp_value == temp_map.at[<<1, 1>>]
    IN  CASE temp_value = WARM -> "warm"
          [] temp_value = COOL -> "cool"
          [] temp_value = NEUTRAL -> "neutral"

(***************************************************************************)
(* analysis.py: clustering                                                 *)
(***************************************************************************)
\* The label KMeans gives a sample: the nearest centre, the first of them
\* when several are equally near.  Here the centre equal to the sample.
NearestCentre(centers, k, v) ==
    CHOOSE i \in 0 .. k - 1 : centers[i] = v /\ \A j \in 0 .. i - 1 : centers[j] # v

\* What KMeans(n_clusters=k).fit_predict can return on the samples of `lab`
\* when they take at most k distinct values: every distinct value is a
\* centre (k-means++ seeds a new centre only on a sample away from the
\* centres it has), a centre beyond the distinct values repeats one of
\* them, and each sample is labelled with its nearest centre.  Which
\* cluster id holds which value depends on the seeded draws and is left
\* open.
KMeansFits(lab, k) ==
    {[centers |-> centers,
      labels |-> Array(lab.shape, lab.grid,
                       [c \in Cells(lab.grid) |-> NearestCentre(centers, k, lab.at[c])])] :
        centers \in {ce \in [0 .. k - 1 -> Values(lab)] :
                        \A v \in Values(lab) : \E i \in 0 .. k - 1 : ce[i] = v}}

ClusterInfo(index, center_lab, center_lch, pixel_count) ==
    [index |-> index, center_lab |-> center_lab, center_lch |-> center_lch,
     pixel_count |-> pixel_count]

\* list.sort(key=pixel_count, reverse=True) is stable: the record at
\* position i goes after every record with a larger count and after the
\* records of equal count that were before it
SortedPosition(clusters, i) ==
    1 + Cardinality({j \in 1 .. Len(clusters) :
                        \/ clusters[j].pixel_count > clusters[i].pixel_count
                        \/ clusters[j].pixel_count = clusters[i].pixel_count /\ j < i})

\* the cluster list left in KMeans' order
SortByCountDesc_unsorted(clusters) == clusters

SortByCountDesc(clusters) ==
    [p \in 1 .. Len(clusters) |->
        clusters[CHOOSE i \in 1 .. Len(clusters) : SortedPosition(clusters, i) = p]]

\* the count of the label after i
Bincount_next_label(labels, i) == CountTrue(EqualTo(labels, i + 1))

\* np.bincount(labels, minlength=k)[i]
Bincount(labels, i) == CountTrue(EqualTo(labels, i))

\* run_kmeans with the outcome `fit` of KMeans.fit_predict; sklearn raises
\* ValueError when there are fewer samples than clusters
run_kmeans(lab, k, fit) ==
    IF Size(lab) < k
    THEN Raise("ValueError", "n_samples should be >= n_clusters")
    ELSE LET clusters == [i \in 1 .. k |->
                            ClusterInfo(i - 1, fit.centers[i - 1],
                                        lab_to_lch(fit.centers[i - 1]),
                                        Bincount(fit.labels, i - 1))]
         IN  Ok([labels |-> fit.labels, clusters |-> SortByCountDesc(clusters)])

(***************************************************************************)
(* analysis.py: analyze_image                                              *)
(***************************************************************************)
\* load_image, pil_to_numpy and downsample_image, the steps of analyze_image
\* before the colour conversion
Preprocess(file_bytes) ==
    LET pil_image == load_image(file_bytes)
    IN  IF ~pil_image.ok THEN pil_image
        ELSE LET original_np == pil_to_numpy(pil_image.value)
                 down == downsample_image(original_np, MAX_ANALYSIS_EDGE)
             IN  IF ~down.ok THEN down
                 ELSE Ok([pil_image |-> pil_image.value,
                          original_np |-> original_np,
                          analysis_np |-> down.value.image,
                          scale |-> down.value.scale])

LabArray(rgb) ==
    Array(rgb.shape, rgb.grid, [c \in Cells(rgb.grid) |-> rgb_to_lab(rgb.at[c])])

LchArray(lab) ==
    Array(lab.shape, lab.grid, [c \in Cells(lab.grid) |-> lab_to_lch(lab.at[c])])

NoFit == [centers |-> <<>>, labels |-> <<>>]

\* The outcomes KMeans can have inside analyze_image(file_bytes); NoFit when
\* the pipeline fails before or at the clustering
FitsFor(file_bytes) ==
    LET pre == Preprocess(file_bytes)
    IN  IF pre.ok /\ Size(pre.value.analysis_np) >= DEFAULT_K
        THEN KMeansFits(LabArray(pre.value.analysis_np), DEFAULT_K)
        ELSE {NoFit}

\* analyze_image up to the construction of the AnalysisResult: `fit` is the
\* outcome of KMeans, `analysis_id` the value of uuid.uuid4()
BuildResult(file_bytes, fit, analysis_id) ==
    LET pre == Preprocess(file_bytes)
    IN  IF ~pre.ok THEN pre
        ELSE LET lab == LabArray(pre.value.analysis_np)
                 lch == LchArray(lab)
                 km == run_kmeans(lab, DEFAULT_K, fit)
             IN  IF ~km.ok THEN km
                 ELSE Ok([analysis_id |-> analysis_id,
                          original_image |-> pre.value.pil_image,
                          original_array |-> pre.value.original_np,
                          analysis_array |-> pre.value.analysis_np,
                          lab_array |-> lab,
                          lch_array |-> lch,
                          value_histogram |-> compute_value_histogram(Channel(lab, 1), VALUE_BINS),
                          hue_histogram |-> compute_hue_histogram(Channel(lch, 3), HUE_BINS),
                          temperature_map |-> compute_temperature_map(lch, 600, 80),
                          clusters |-> km.value.clusters,
                          labels |-> km.value.labels,
                          downscale_ratio |-> pre.value.scale])

\* a store that keeps the latest result only
StoreAdd_latest_only(items, result) == [id \in {result.analysis_id} |-> result]

\* AnalysisStore.add: self._items[result.analysis_id] = result
StoreAdd(items, result) ==
    [id \in DOMAIN items \cup {result.analysis_id} |->
        IF id = result.analysis_id THEN result ELSE items[id]]

\* AnalysisStore.get: KeyError for an id that is no key
StoreGet(items, analysis_id) ==
    IF analysis_id \notin DOMAIN items THEN Raise("KeyError", analysis_id) ELSE Ok(items[analysis_id])

\* a remove that empties the mapping: self._items.clear()
StoreRemove_clearing(items, analysis_id) == [id \in {} |-> <<>>]

\* AnalysisStore.remove: self._items.pop(analysis_id, None)
StoreRemove(items, analysis_id) ==
    [id \in DOMAIN items \ {analysis_id} |-> items[id]]

\* analyze_image emptying the store when the pipeline fails
analyze_image_clearing(items, file_bytes, fit, analysis_id) ==
    LET built == BuildResult(file_bytes, fit, analysis_id)
    IN  IF built.ok
        THEN [ret |-> built, items |-> StoreAdd(items, built.value)]
        ELSE [ret |-> built, items |-> [id \in {} |-> <<>>]]

\* analyze_image: what it returns or raises, and the store's mapping after it
analyze_image(items, file_bytes, fit, analysis_id) ==
    LET built == BuildResult(file_bytes, fit, analysis_id)
    IN  IF built.ok
        THEN [ret |-> built, items |-> StoreAdd(items, built.value)]
        ELSE [ret |-> built, items |-> items]

(***************************************************************************)
(* mask_ops.py: mask generation                                            *)
(***************************************************************************)
\* np.round(num / den) for den > 0: to nearest, ties to even
RoundHalfEven(num, den) ==
    LET q == num \div den
        r == num % den
    IN  IF 2 * r < den THEN q
        ELSE IF 2 * r > den THEN q + 1
        ELSE IF q % 2 = 0 THEN q ELSE q + 1

\* the 8-bit index of an L* value: clip(round(clip(L, 0, 100) / 100 * 255), 0, 255)
ValueBin(L) == Clip(RoundHalfEven(Clip(L, 0, 1000) * 255, 1000), 0, 255)

_mask_from_value(l_channel, lower_bin, upper_bin) ==
    Array(l_channel.shape, l_channel.grid,
          [c \in Cells(l_channel.grid) |->
              ValueBin(l_channel.at[c]) >= lower_bin /\ ValueBin(l_channel.at[c]) <= upper_bin])

Abs(x) == IF x < 0 THEN -x ELSE x

\* the circular distance |((H - base + 180) % 360) - 180|
HueDiff(h, base_hue) == Abs(((h - base_hue + 1800) % 3600) - 1800)

_mask_from_hue(h_channel, base_hue, tolerance) ==
    Array(h_channel.shape, h_channel.grid,
          [c \in Cells(h_channel.grid) |-> HueDiff(h_channel.at[c], base_hue) <= tolerance])

\* _mask_from_cluster comparing the labels with the rank index itself
_mask_from_cluster_by_rank(labels, cluster_rank_index, ranked) ==
    IF cluster_rank_index < 0 \/ cluster_rank_index >= Len(ranked)
    THEN Raise("ValueError", "cluster_rank_index out of range")
    ELSE Ok(EqualTo(labels, cluster_rank_index))

\* _mask_from_cluster without the test for a negative rank index: a negative
\* index of a Python list counts from its end
_mask_from_cluster_unchecked_below(labels, cluster_rank_index, ranked) ==
    IF cluster_rank_index >= Len(ranked) \/ cluster_rank_index < -Len(ranked)
    THEN Raise("IndexError", "list index out of range")
    ELSE Ok(EqualTo(labels, ranked[IF cluster_rank_index >= 0 THEN cluster_rank_index + 1
                                   ELSE Len(ranked) + cluster_rank_index + 1]))

\* `ranked` is the sequence of original cluster ids in rank order; the rank
\* index is 0-based
_mask_from_cluster(labels, cluster_rank_index, ranked) ==
    IF cluster_rank_index < 0 \/ cluster_rank_index >= Len(ranked)
    THEN Raise("ValueError", "cluster_rank_index out of range")
    ELSE Ok(EqualTo(labels, ranked[cluster_rank_index + 1]))

_mask_from_temperature(temperature_map, category) ==
    IF category \notin {"warm", "cool", "neutral"}
    THEN Raise("ValueError", "Unknown temperature category")
    ELSE Ok(EqualTo(temperature_map,
                    CASE category = "warm" -> WARM
                      [] category = "cool" -> COOL
                      [] category = "neutral" -> NEUTRAL))

\* the square of np.linalg.norm(lab - target)
Dist2(lab, target) ==
    (lab[1] - target[1]) * (lab[1] - target[1])
    + (lab[2] - target[2]) * (lab[2] - target[2])
    + (lab[3] - target[3]) * (lab[3] - target[3])

\* norm < tolerance
WithinTolerance_strict(lab, target, tolerance) ==
    tolerance > 0 /\ Dist2(lab, target) < tolerance * tolerance

\* norm <= tolerance: a norm is never below zero
WithinTolerance(lab, target, tolerance) ==
    tolerance >= 0 /\ Dist2(lab, target) <= tolerance * tolerance

_mask_from_ground_lab(lab_array, target_lab, tolerance) ==
    Array(lab_array.shape, lab_array.grid,
          [c \in Cells(lab_array.grid) |-> WithinTolerance(lab_array.at[c], target_lab, tolerance)])

\* The keyword arguments of generate_mask with their defaults (None: absent)
MaskParams ==
    [value_range |-> None, hue |-> None, hue_tolerance |-> 100,
     cluster_rank_index |-> None, temperature_category |-> None,
     ground_lab |-> None, ground_tolerance |-> 75]

\* Python truthiness of an optional tuple and of an optional string: None
\* and the empty value are false
FalsyTuple(o) == o = None \/ Len(Val(o)) = 0
FalsyStr(o) == o = None \/ Val(o) = ""

RankedIndices(clusters) == [i \in 1 .. Len(clusters) |-> clusters[i].index]

\* `x is None` tested as `not x`: the number 0 counts as absent too
IsNone_falsy(o) == o = None \/ Val(o) = 0

\* `x is None`
IsNone(o) == o = None

generate_mask(result, mode, p) ==
    CASE mode = "value" ->
            IF FalsyTuple(p.value_range)
            THEN Raise("ValueError", "value_range required for value mask")
            ELSE Ok(_mask_from_value(Channel(result.lab_array, 1),
                                     Val(p.value_range)[1], Val(p.value_range)[2]))
      [] mode = "hue" ->
            IF IsNone(p.hue)
            THEN Raise("ValueError", "hue required for hue mask")
            ELSE Ok(_mask_from_hue(Channel(result.lch_array, 3), Val(p.hue), p.hue_tolerance))
      [] mode = "cluster" ->
            IF IsNone(p.cluster_rank_index)
            THEN Raise("ValueError", "cluster_rank_index required for cluster mask")
            ELSE _mask_from_cluster(result.labels, Val(p.cluster_rank_index),
                                    RankedIndices(result.clusters))
      [] mode = "temperature" ->
            IF FalsyStr(p.temperature_category)
            THEN Raise("ValueError", "temperature_category required")
            ELSE _mask_from_temperature(result.temperature_map, Val(p.temperature_category))
      [] mode = "ground" ->
            IF p.ground_lab = None
            THEN Raise("ValueError", "ground_lab required for ground mask")
            ELSE Ok(_mask_from_ground_lab(result.lab_array, Val(p.ground_lab), p.ground_tolerance))
      [] OTHER -> Raise("ValueError", "Unknown mode")

\* the parameters of a call generate_mask(result, mode, **kwargs): a
\* keyword that was not given takes the default of the signature
BindKeywords(kwargs) ==
    [f \in DOMAIN MaskParams |-> IF f \in DOMAIN kwargs THEN kwargs[f] ELSE MaskParams[f]]

\* The call generate_mask(result, mode, **kwargs).  The signature is
\* keyword-only without **kwargs: a keyword it does not name raises
\* TypeError before the body runs.
CallGenerateMask(result, mode, kwargs) ==
    IF ~(DOMAIN kwargs \subseteq DOMAIN MaskParams)
    THEN Raise("TypeError", "generate_mask() got an unexpected keyword argument")
    ELSE generate_mask(result, mode, BindKeywords(kwargs))

(***************************************************************************)
(* mask_ops.py: rendering.  The arrays of an AnalysisResult are shared     *)
(* references: an overlay is given the stored array itself, so each        *)
(* overlay returns, with its image, the contents of that array afterwards. *)
(***************************************************************************)
HIGHLIGHT == "highlight"
WASH == "wash"
EXTRACT == "extract"
DEFAULT_VIEWS == <<HIGHLIGHT, WASH, EXTRACT>>

\* Image.fromarray(...) then _encode_png: the lossless encoding of the pixels
_encode_png(mode, pixels) == [format |-> "PNG", mode |-> mode, pixels |-> pixels]

Rendered(image, base) == [ok |-> TRUE, value |-> image, base |-> base]
RenderFailed(type, msg, base) ==
    [ok |-> FALSE, error |-> [type |-> type, msg |-> msg], base |-> base]

\* an index array of another shape than the array it indexes
ShapeMismatch(base, mask) == base.shape # mask.shape

\* (0.6 * 255 or 64 + 0.4 * v).astype(np.uint8), channel ch of the overlay colour
Blend(v, ch) == (6 * (IF ch = 1 THEN 255 ELSE 64) + 4 * v) \div 10

\* blended = base.copy(); blended[mask_3c] = (0.6 * highlight + 0.4 * base[mask_3c])
\* base[mask_3c] is the flat array of the 3n selected channel values and
\* highlight has shape (1, 1, 3): the sum broadcasts only when n = 1, to shape
\* (1, 1, 3), and a full boolean-mask assignment takes no value of more than
\* one dimension
_apply_highlight_overlay(base, mask) ==
    IF ShapeMismatch(base, mask)
    THEN RenderFailed("IndexError", "boolean index did not match", base)
    ELSE IF CountTrue(mask) # 1
    THEN RenderFailed("ValueError", "operands could not be broadcast together", base)
    ELSE RenderFailed("TypeError",
                      "boolean array indexing assignment requires a 0 or 1-dimensional input",
                      base)

\* the wash written into base itself (no base.copy())
_apply_wash_overlay_in_place(base, mask) ==
    IF base.shape # mask.shape
    THEN [ok |-> FALSE, error |-> [type |-> "IndexError", msg |-> "boolean index did not match"],
          base |-> base]
    ELSE LET washed == Array(base.shape, base.grid,
                             [c \in Cells(base.grid) |->
                                 IF mask.at[c] THEN base.at[c]
                                 ELSE <<(base.at[c][1] * 15) \div 100,
                                        (base.at[c][2] * 15) \div 100,
                                        (base.at[c][3] * 15) \div 100>>])
         IN  [ok |-> TRUE, value |-> [format |-> "PNG", mode |-> "RGB", pixels |-> washed],
              base |-> washed]

\* washed = base.astype(float32); washed[~mask] *= 0.15; output = base.copy();
\* output[~mask] = washed[~mask]
_apply_wash_overlay(base, mask) ==
    IF ShapeMismatch(base, mask)
    THEN RenderFailed("IndexError", "boolean index did not match", base)
    ELSE Rendered(_encode_png("RGB",
                    Array(base.shape, base.grid,
                          [c \in Cells(base.grid) |->
                              IF mask.at[c] THEN base.at[c]
                              ELSE <<(base.at[c][1] * 15) \div 100,
                                     (base.at[c][2] * 15) \div 100,
                                     (base.at[c][3] * 15) \div 100>>])),
                  base)

\* rgba = zeros((h, w, 4)); rgba[..., :3] = base; rgba[..., 3] = mask * 255
_apply_extract_overlay(base, mask) ==
    IF ShapeMismatch(base, mask)
    THEN RenderFailed("ValueError", "could not broadcast input array", base)
    ELSE Rendered(_encode_png("RGBA",
                    Array(base.shape, base.grid,
                          [c \in Cells(base.grid) |->
                              <<base.at[c][1], base.at[c][2], base.at[c][3],
                                IF mask.at[c] THEN 255 ELSE 0>>])),
                  base)

\* the mask handed on at the size it has
upsample_mask_as_is(mask, target_shape) == mask

\* cv2.resize(mask.astype(uint8), (target_w, target_h), INTER_NEAREST): the
\* mask of the same cells at the target shape
upsample_mask(mask, target_shape) == Array(target_shape, mask.grid, mask.at)

ApplyView(view, base, mask) ==
    CASE view = HIGHLIGHT -> _apply_highlight_overlay(base, mask)
      [] view = WASH -> _apply_wash_overlay(base, mask)
      [] view = EXTRACT -> _apply_extract_overlay(base, mask)
      [] OTHER -> RenderFailed("ValueError", "Unknown view", base)

\* the loop of render_views over views[i ..], `output` being the dict so far
RECURSIVE RenderLoop(_, _, _, _, _)
RenderLoop(views, i, base, mask, output) ==
    IF i > Len(views) THEN Rendered(output, base)
    ELSE LET r == ApplyView(views[i], base, mask)
         IN  IF ~r.ok THEN r
             ELSE RenderLoop(views, i + 1, r.base, mask,
                             [v \in DOMAIN output \cup {views[i]} |->
                                 IF v = views[i] THEN r.value ELSE output[v]])

EmptyDict == [v \in {} |-> None]

\* render_views: what it returns or raises, and the AnalysisResult afterwards
render_views(result, mask, views, upscale) ==
    LET full == upscale /\ ~IsOne(result.downscale_ratio)
        mask_full == IF full THEN upsample_mask(mask, result.original_array.shape)
                     ELSE mask
        base == IF full THEN result.original_array ELSE result.analysis_array
        r == RenderLoop(views, 1, base, mask_full, EmptyDict)
        after == IF full THEN [result EXCEPT !.original_array = r.base]
                 ELSE [result EXCEPT !.analysis_array = r.base]
    IN  [ret |-> IF r.ok THEN Ok(r.value) ELSE [ok |-> FALSE, error |-> r.error],
         result |-> after]

(***************************************************************************)
(* ground.py                                                               *)
(***************************************************************************)
GROUND_VALUE_LO == 350
GROUND_VALUE_HI == 650
GROUND_CHROMA_MAX == 80

\* the lightness range taken without its ends
Eligible_exclusive(cluster) ==
    /\ GROUND_VALUE_LO < cluster.center_lch[1]
    /\ cluster.center_lch[1] < GROUND_VALUE_HI
    /\ cluster.center_lch[2] < GROUND_CHROMA_MAX

Eligible(cluster) ==
    /\ GROUND_VALUE_LO <= cluster.center_lch[1]
    /\ cluster.center_lch[1] <= GROUND_VALUE_HI
    /\ cluster.center_lch[2] < GROUND_CHROMA_MAX

\* the loop of detect_ground_cluster from rank position i (1-based) on;
\* `candidate` is an optional 0-based rank index
RECURSIVE DetectFrom(_, _, _, _)
DetectFrom(clusters, i, candidate, candidate_pixels) ==
    IF i > Len(clusters) THEN candidate
    ELSE IF Eligible(clusters[i]) /\ clusters[i].pixel_count > candidate_pixels
         THEN DetectFrom(clusters, i + 1, Some(i - 1), clusters[i].pixel_count)
         ELSE DetectFrom(clusters, i + 1, candidate, candidate_pixels)

detect_ground_cluster(result) == DetectFrom(result.clusters, 1, None, -1)

\* result.clusters[ranked_index]: a Python list index, negative ones counting
\* from the end
ground_mask_from_cluster(result, ranked_index, tolerance) ==
    LET n == Len(result.clusters)
    IN  IF ranked_index >= n \/ ranked_index < -n
        THEN Raise("IndexError", "list index out of range")
        ELSE LET cluster == result.clusters[IF ranked_index >= 0 THEN ranked_index + 1
                                            ELSE n + ranked_index + 1]
             IN  generate_mask(result, "ground",
                               [MaskParams EXCEPT !.ground_lab = Some(cluster.center_lab),
                                                  !.ground_tolerance = tolerance])

\* What OpenCV computes from the analysis image: `objects` is the map left by
\* Canny, dilate, close, floodFill from (0, 0), bitwise_not and open;
\* `edge_band` the dilated edge map.  Both are boolean arrays of the image's
\* shape.  An image of one colour has no edge: its edge band is empty, the
\* flood fill clears the whole inverted edge map and `objects` is all true.
\* For any other image the maps are left open.
CvMaps(image) ==
    IF Cardinality(Values(image)) = 1
    THEN {[objects |-> Array(image.shape, image.grid, [c \in Cells(image.grid) |-> TRUE]),
           edge_band |-> Array(image.shape, image.grid, [c \in Cells(image.grid) |-> FALSE])]}
    ELSE {[objects |-> Array(image.shape, image.grid, o),
           edge_band |-> Array(image.shape, image.grid, e)] :
             <<o, e>> \in [Cells(image.grid) -> BOOLEAN] \X [Cells(image.grid) -> BOOLEAN]}

\* ground_inside_forms_mask, `cv` being OpenCV's maps of result.analysis_array
ground_inside_forms_mask(result, ground_mask, cv) ==
    LET ground_inside == [c \in Cells(ground_mask.grid) |->
                             ground_mask.at[c] /\ cv.objects.at[c]]
        frayed == [c \in Cells(ground_mask.grid) |-> ground_inside[c] /\ cv.edge_band.at[c]]
        combined == [c \in Cells(ground_mask.grid) |-> IF frayed[c] THEN TRUE ELSE ground_inside[c]]
    IN  Array(ground_mask.shape, ground_mask.grid, combined)

\* coverage is the quotient pixels / total, kept as the pair
summarize_ground(result, ground_mask) ==
    [pixels |-> CountTrue(ground_mask),
     coverage |-> IF Size(ground_mask) # 0 THEN <<CountTrue(ground_mask), Size(ground_mask)>>
                  ELSE <<0, 1>>]

(***************************************************************************)
(* palette.py.  An entry is kept by its id, its hex colour and its Lab     *)
(* colour (rgb_to_lab of the hex colour, in tenths); name, recipe, notes,  *)
(* lch and rgb are carried along with the entry unchanged.                 *)
(***************************************************************************)
PALETTE ==
    <<
    [id |-> "olive-umber-wash", hex |-> "#7B7A64", lab |-> <<507, -36, 122>>],
    [id |-> "raw-sienna-float", hex |-> "#A98B63", lab |-> <<597, 58, 257>>],
    [id |-> "cool-slate", hex |-> "#6F7684", lab |-> <<495, 5, -85>>],
    [id |-> "warm-neutral-gray", hex |-> "#8B8074", lab |-> <<542, 20, 80>>],
    [id |-> "cold-porcelain", hex |-> "#C6C3BD", lab |-> <<789, 0, 34>>],
    [id |-> "umber-shadow", hex |-> "#4E453B", lab |-> <<299, 19, 74>>],
    [id |-> "terra-rosa-veil", hex |-> "#B57763", lab |-> <<560, 219, 210>>],
    [id |-> "sage-underpaint", hex |-> "#7F8F77", lab |-> <<575, -105, 109>>],
    [id |-> "cool-mid-gray", hex |-> "#6B6D70", lab |-> <<460, -1, -19>>],
    [id |-> "warm-mid-gray", hex |-> "#706B65", lab |-> <<455, 8, 41>>],
    [id |-> "neutral-light-gray", hex |-> "#A8A8A8", lab |-> <<689, 0, 0>>],
    [id |-> "neutral-mid-gray", hex |-> "#808080", lab |-> <<536, 0, 0>>],
    [id |-> "neutral-dark-gray", hex |-> "#505050", lab |-> <<340, 0, 0>>],
    [id |-> "ochre-stone", hex |-> "#9C8762", lab |-> <<573, 24, 229>>],
    [id |-> "rose-gray", hex |-> "#9B8A87", lab |-> <<589, 59, 39>>],
    [id |-> "blue-gray-light", hex |-> "#9BA5AE", lab |-> <<672, -17, -59>>],
    [id |-> "warm-pink-ground", hex |-> "#D4A5A5", lab |-> <<720, 173, 67>>],
    [id |-> "golden-ochre", hex |-> "#C2A565", lab |-> <<690, 22, 370>>],
    [id |-> "verde-tone", hex |-> "#6B7B6A", lab |-> <<499, -94, 73>>],
    [id |-> "crimson-shadow", hex |-> "#6B4A4A", lab |-> <<350, 140, 56>>],
    [id |-> "orange-clay", hex |-> "#B88560", lab |-> <<597, 151, 276>>],
    [id |-> "violet-gray", hex |-> "#8B7B8A", lab |-> <<535, 90, -59>>],
    [id |-> "phthalo-silver", hex |-> "#7A8B8B", lab |-> <<566, -61, -21>>],
    [id |-> "cadmium-neutral", hex |-> "#A89680", lab |-> <<631, 31, 141>>],
    [id |-> "blue-green-gray", hex |-> "#728A85", lab |-> <<555, -96, -2>>],
    [id |-> "violet-warm-gray", hex |-> "#948885", lab |-> <<577, 40, 32>>],
    [id |-> "lemon-gray", hex |-> "#B5B895", lab |-> <<737, -71, 175>>],
    [id |-> "orange-complement-gray", hex |-> "#9A8878", lab |-> <<579, 41, 111>>],
    [id |-> "magenta-sky", hex |-> "#AFA5B0", lab |-> <<689, 56, -44>>],
    [id |-> "sevres-pearl", hex |-> "#B8C5CC", lab |-> <<787, -31, -50>>],
    [id |-> "red-gray-neutral", hex |-> "#8A7A78", lab |-> <<526, 58, 33>>]
    >>

\* delta_e orders colours as its square does: the value kept is the square
\* of twice the distance, (3 dL)^2 + (2 da)^2 + (2 db)^2, in tenths
delta_e(lab1, lab2) ==
    9 * (lab1[1] - lab2[1]) * (lab1[1] - lab2[1])
    + 4 * (lab1[2] - lab2[2]) * (lab1[2] - lab2[2])
    + 4 * (lab1[3] - lab2[3]) * (lab1[3] - lab2[3])

\* the candidate of every palette entry, in palette order
Candidates(lab_color) ==
    [i \in 1 .. Len(PALETTE) |->
        [id |-> PALETTE[i].id, hex |-> PALETTE[i].hex, lab |-> PALETTE[i].lab,
         deltaE |-> delta_e(lab_color, PALETTE[i].lab)]]

\* candidates.sort(key=deltaE, reverse=True)
SortByDeltaE_reversed(candidates) ==
    [p \in 1 .. Len(candidates) |->
        candidates[CHOOSE i \in 1 .. Len(candidates) :
            p = 1 + Cardinality({j \in 1 .. Len(candidates) :
                        \/ candidates[j].deltaE > candidates[i].deltaE
                        \/ candidates[j].deltaE = candidates[i].deltaE /\ j < i})]]

\* candidates.sort(key=deltaE): list.sort is stable, equal keys keep their order
SortByDeltaE(candidates) ==
    [p \in 1 .. Len(candidates) |->
        candidates[CHOOSE i \in 1 .. Len(candidates) :
            p = 1 + Cardinality({j \in 1 .. Len(candidates) :
                        \/ candidates[j].deltaE < candidates[i].deltaE
                        \/ candidates[j].deltaE = candidates[i].deltaE /\ j < i})]]

\* seq[:n] of a Python list: a negative n counts from the end
SliceTo(seq, n) ==
    LET stop == IF n >= 0 THEN (IF n < Len(seq) THEN n ELSE Len(seq))
                ELSE Max(Len(seq) + n, 0)
    IN  [i \in 1 .. stop |-> seq[i]]

match_palette(lab_color, top_n) ==
    CHOOSE r \in {SliceTo(sorted, top_n) :
                    sorted \in {SortByDeltaE(Candidates(lab_color))}} : TRUE

(***************************************************************************)
(* main.py: the request handlers.  Each returns the HTTP response and the  *)
(* store's mapping afterwards.  A handler has no suspension point between  *)
(* its reads and writes of the store, so it is one step.                   *)
(***************************************************************************)
Http(status, body) == [status |-> status, body |-> body]

\* an exception no handler catches: FastAPI answers 500
Unhandled(error) == Http(500, [error |-> error])

\* `calls`: the functions of the core the handler called, in order
Handled(response, items, calls) == [response |-> response, items |-> items, calls |-> calls]

\* a content type is the pair <<type, subtype>>; startswith("image/")
IsImageType(content_type) == content_type # None /\ Val(content_type)[1] = "image"

\* the ClusterSummary list of the analyze response
ClusterSummaries(result) ==
    [i \in 1 .. Len(result.clusters) |->
        [index |-> result.clusters[i].index,
         pixelCount |-> result.clusters[i].pixel_count]]

\* the rest of analyze once analyze_image has returned or raised `done`
AnalyzeResponse(done) ==
    IF ~done.ret.ok
    THEN Handled(Unhandled(done.ret.error), done.items, <<"analyze_image">>)
    ELSE LET result == done.ret.value
         IN  Handled(Http(200,
                       [analysisId |-> result.analysis_id,
                        originalSize |-> result.original_array.shape,
                        analysisSize |-> result.analysis_array.shape,
                        downscaleRatio |-> result.downscale_ratio,
                        clusters |-> ClusterSummaries(result),
                        detectedGroundIndex |-> detect_ground_cluster(result)]),
                     done.items, <<"analyze_image", "detect_ground_cluster">>)

analyze(items, upload, fit, uuid) ==
    IF ~IsImageType(upload.content_type)
    THEN Handled(Http(400, [detail |-> "File must be an image"]), items, <<>>)
    ELSE CHOOSE h \in {AnalyzeResponse(done) :
                        done \in {analyze_image(items, upload.file, fit, uuid)}} : TRUE

\* schemas.py: the optional fields of MaskRequest and of ExportRequest with
\* their defaults; analysisId and mode are required
MaskRequestDefaults ==
    [valueRange |-> None, hue |-> None, hueTolerance |-> 120, clusterRankIndex |-> None,
     temperatureCategory |-> None, groundLab |-> None, groundTolerance |-> 75,
     warmSpan |-> 600, neutralChroma |-> 80, views |-> None, upscale |-> TRUE]

ExportRequestDefaults ==
    [valueRange |-> None, hue |-> None, hueTolerance |-> 120, clusterRankIndex |-> None,
     temperatureCategory |-> None, groundLab |-> None, groundTolerance |-> 75]

\* the request object pydantic builds from a valid body: the fields of the
\* schema, each from the body or else its default
ParseRequest(defaults, body) ==
    [f \in DOMAIN defaults \cup {"analysisId", "mode"} |->
        IF f \in DOMAIN body THEN body[f] ELSE defaults[f]]

\* the attributes of the request the handlers read to call generate_mask
MaskKeywordFields ==
    {"mode", "valueRange", "hue", "hueTolerance", "clusterRankIndex", "temperatureCategory",
     "groundLab", "groundTolerance", "warmSpan", "neutralChroma"}

\* the keyword arguments mask and export give generate_mask
MaskKeywords(request) ==
    [value_range |-> request.valueRange, hue |-> request.hue,
     hue_tolerance |-> request.hueTolerance,
     cluster_rank_index |-> request.clusterRankIndex,
     temperature_category |-> request.temperatureCategory,
     ground_lab |-> request.groundLab, ground_tolerance |-> request.groundTolerance,
     warm_span |-> request.warmSpan, neutral_chroma |-> request.neutralChroma]

\* the functions called once the id is found: generate_mask's body runs
\* only if the call binds
CallsOfMask(kwargs) ==
    IF DOMAIN kwargs \subseteq DOMAIN MaskParams THEN <<"store.get", "generate_mask">>
    ELSE <<"store.get">>

\* `request.views or list(DEFAULT_VIEWS)`
ViewsOrDefault(views) ==
    IF views = None \/ Len(Val(views)) = 0 THEN DEFAULT_VIEWS ELSE Val(views)

\* mask: the call of generate_mask passes warm_span and neutral_chroma, which
\* generate_mask does not take: Python raises TypeError before its body runs
mask(items, request) ==
    LET got == StoreGet(items, request.analysisId)
    IN  IF ~got.ok
        THEN Handled(Http(404, [detail |-> "analysis not found"]), items, <<"store.get">>)
        ELSE LET result == got.value
                 views == ViewsOrDefault(request.views)
                 kwargs == MaskKeywords(request)
                 made == CallGenerateMask(result, request.mode, kwargs)
             IN  IF ~made.ok
                 THEN Handled(Unhandled(made.error), items, CallsOfMask(kwargs))
                 ELSE LET payload == render_views(result, made.value, views, request.upscale)
                          after == [items EXCEPT ![request.analysisId] = payload.result]
                      IN  IF ~payload.ret.ok
                          THEN Handled(Unhandled(payload.ret.error), after,
                                       CallsOfMask(kwargs) \o <<"render_views">>)
                          ELSE Handled(Http(200, [analysisId |-> request.analysisId,
                                                  mode |-> request.mode,
                                                  payload |-> payload.ret.value]),
                                       after, CallsOfMask(kwargs) \o <<"render_views">>)

\* export building the arguments of generate_mask before it looks the id up
export_arguments_first(items, request) ==
    Handled(Unhandled([type |-> "AttributeError",
                       msg |-> "ExportRequest object has no attribute warmSpan"]),
            items, <<>>)

\* export: ExportRequest has no field warmSpan, so building the arguments of
\* generate_mask raises AttributeError
export(items, request) ==
    LET got == StoreGet(items, request.analysisId)
    IN  IF ~got.ok
        THEN Handled(Http(404, [detail |-> "analysis not found"]), items, <<"store.get">>)
        ELSE IF ~(MaskKeywordFields \subseteq DOMAIN request)
        THEN Handled(Unhandled([type |-> "AttributeError",
                                msg |-> "ExportRequest object has no attribute warmSpan"]),
                     items, <<"store.get">>)
        ELSE LET result == got.value
                 kwargs == MaskKeywords(request)
                 made == CallGenerateMask(result, request.mode, kwargs)
             IN  IF ~made.ok
                 THEN Handled(Unhandled(made.error), items, CallsOfMask(kwargs))
                 ELSE LET payload == render_views(result, made.value, DEFAULT_VIEWS, TRUE)
                          after == [items EXCEPT ![request.analysisId] = payload.result]
                      IN  IF ~payload.ret.ok
                          THEN Handled(Unhandled(payload.ret.error), after,
                                       CallsOfMask(kwargs) \o <<"render_views">>)
                          ELSE Handled(Http(200, [analysisId |-> request.analysisId,
                                                  highlight |-> payload.ret.value[HIGHLIGHT],
                                                  wash |-> payload.ret.value[WASH],
                                                  extract |-> payload.ret.value[EXTRACT]]),
                                       after, CallsOfMask(kwargs) \o <<"render_views">>)

\* the ground mask of ground_inside, by groundSource: an HTTP error response,
\* an exception, or the mask
GroundMaskOf(result, request) ==
    CASE request.groundSource = "detected" ->
            LET detected == detect_ground_cluster(result)
            IN  IF detected = None
                THEN [http |-> Some(Http(400, [detail |-> "No ground cluster detected"])),
                      calls |-> <<"detect_ground_cluster">>]
                ELSE [http |-> None,
                      calls |-> <<"detect_ground_cluster", "ground_mask_from_cluster",
                                  "generate_mask">>,
                      mask |-> ground_mask_from_cluster(result, Val(detected),
                                                        request.groundTolerance)]
      [] request.groundSource = "cluster" ->
            IF request.clusterRankIndex = None
            THEN [http |-> Some(Http(400, [detail |-> "clusterRankIndex required"])),
                  calls |-> <<>>]
            ELSE [http |-> None,
                  calls |-> <<"ground_mask_from_cluster", "generate_mask">>,
                  mask |-> ground_mask_from_cluster(result, Val(request.clusterRankIndex),
                                                    request.groundTolerance)]
      [] request.groundSource = "lab" ->
            IF request.groundLab = None
            THEN [http |-> Some(Http(400, [detail |-> "groundLab required"])),
                  calls |-> <<>>]
            ELSE [http |-> None,
                  calls |-> <<"generate_mask">>,
                  mask |-> generate_mask(result, "ground",
                                         [MaskParams EXCEPT
                                             !.ground_lab = request.groundLab,
                                             !.ground_tolerance = request.groundTolerance])]
      [] OTHER -> [http |-> Some(Http(400, [detail |-> "Unknown groundSource"])),
                   calls |-> <<>>]

ground_inside(items, request, cv) ==
    LET got == StoreGet(items, request.analysisId)
    IN  IF ~got.ok
        THEN Handled(Http(404, [detail |-> "analysis not found"]), items, <<"store.get">>)
        ELSE LET result == got.value
                 ground == GroundMaskOf(result, request)
             IN  IF ground.http # None
                 THEN Handled(Val(ground.http), items, <<"store.get">> \o ground.calls)
                 ELSE IF ~ground.mask.ok
                 THEN Handled(Unhandled(ground.mask.error), items, <<"store.get">> \o ground.calls)
                 ELSE LET inside_mask == ground_inside_forms_mask(result, ground.mask.value, cv)
                          views == render_views(result, inside_mask, <<HIGHLIGHT>>, TRUE)
                          after == [items EXCEPT ![request.analysisId] = views.result]
                      IN  IF ~views.ret.ok
                          THEN Handled(Unhandled(views.ret.error), after,
                                       <<"store.get">> \o ground.calls
                                           \o <<"ground_inside_forms_mask", "render_views">>)
                          ELSE LET metrics == summarize_ground(result, inside_mask)
                               IN  Handled(Http(200,
                                             [analysisId |-> request.analysisId,
                                              highlight |-> views.ret.value[HIGHLIGHT],
                                              coverage |-> metrics.coverage,
                                              pixels |-> metrics.pixels]),
                                           after,
                                           <<"store.get">> \o ground.calls
                                               \o <<"ground_inside_forms_mask", "render_views",
                                                    "summarize_ground">>)

(***************************************************************************)
(* The service: the process-wide store and the requests against it         *)
(***************************************************************************)
Uniform(h, w, rgb) == Array(<<h, w>>, <<1, 1>>, [c \in Cells(<<1, 1>>) |-> rgb])

\* The files uploaded to the service: bytes that are no image; a 1 x 2 image
\* (fewer pixels than clusters); a 2 x 3 grey image, analysed at its own
\* size; a 3200 x 1600 image, which is downsampled; a 3200 x 1 image, whose
\* downsampled width is 0
BigFile == ImageFile(Uniform(3200, 1600, SKY))

ServiceFiles ==
    {JunkFile,
     ImageFile(Array(<<1, 2>>, <<1, 2>>, [c \in Cells(<<1, 2>>) |-> IF c[2] = 1 THEN GREY ELSE RED])),
     ImageFile(Uniform(2, 3, GREY)),
     BigFile,
     ImageFile(Uniform(3200, 1, GREY))}

Uploads ==
    {[content_type |-> None, file |-> JunkFile],
     [content_type |-> Some(<<"text", "plain">>), file |-> BigFile]}
    \cup [content_type : {Some(<<"image", "png">>)}, file : ServiceFiles]

\* analysis ids: the n-th value of uuid.uuid4() is n; 0 is an id never issued
Ids == 0 .. MaxAnalyses

\* calls of generate_mask with the keyword arguments of the mode only:
\* <<mode, keyword arguments>>
OwnMaskCalls ==
    {<<"value", [MaskParams EXCEPT !.value_range = v]>> :
        v \in {None, Some(<<>>), Some(<<0, 0>>), Some(<<100, 140>>)}}
    \cup {<<"hue", [MaskParams EXCEPT !.hue = h, !.hue_tolerance = t]>> :
            h \in {None, Some(0), Some(600)}, t \in {100, 120}}
    \cup {<<"cluster", [MaskParams EXCEPT !.cluster_rank_index = r]>> :
            r \in {None} \cup {Some(i) : i \in -1 .. DEFAULT_K}}
    \cup {<<"temperature", [MaskParams EXCEPT !.temperature_category = t]>> :
            t \in {None, Some(""), Some("warm"), Some("cool"), Some("neutral"), Some("hot")}}
    \cup {<<"ground", [MaskParams EXCEPT !.ground_lab = g, !.ground_tolerance = t]>> :
            g \in {None, Some(rgb_to_lab(GREY)), Some(<<507, 19, 30>>), Some(rgb_to_lab(RED))},
            t \in {0, 5, 75}}
    \cup {<<"sepia", MaskParams>>}

\* every keyword argument given
AllParams ==
    [value_range |-> Some(<<0, 0>>), hue |-> Some(0), hue_tolerance |-> 120,
     cluster_rank_index |-> Some(0), temperature_category |-> Some("warm"),
     ground_lab |-> Some(rgb_to_lab(RED)), ground_tolerance |-> 5]

\* the keyword arguments generate_mask reads in each mode
ModeParams(mode) ==
    CASE mode = "value" -> {"value_range"}
      [] mode = "hue" -> {"hue", "hue_tolerance"}
      [] mode = "cluster" -> {"cluster_rank_index"}
      [] mode = "temperature" -> {"temperature_category"}
      [] mode = "ground" -> {"ground_lab", "ground_tolerance"}
      [] OTHER -> {}

\* the call with the keyword arguments of the other modes given as well
WithOtherParams(mc) ==
    <<mc[1], [f \in DOMAIN MaskParams |->
                 IF f \in ModeParams(mc[1]) THEN mc[2][f] ELSE AllParams[f]]>>

\* calls of generate_mask: <<mode, keyword arguments>>
MaskCalls == OwnMaskCalls \cup {WithOtherParams(mc) : mc \in OwnMaskCalls}

ViewLists == {DEFAULT_VIEWS, <<HIGHLIGHT>>, <<EXTRACT, WASH>>, <<WASH, "sepia">>}

BoolArrays(arr) ==
    {Array(arr.shape, arr.grid, m) : m \in [Cells(arr.grid) -> BOOLEAN]}

\* calls of generate_mask made on the stored results of the service
ServiceMaskCalls ==
    {mc \in OwnMaskCalls :
        \/ mc[1] = "value" /\ mc[2].value_range \in {None, Some(<<100, 140>>)}
        \/ mc[1] = "hue" /\ mc[2].hue = Some(0) /\ mc[2].hue_tolerance = 100
        \/ mc[1] = "cluster" /\ mc[2].cluster_rank_index \in {None, Some(0), Some(DEFAULT_K)}
        \/ mc[1] = "temperature" /\ mc[2].temperature_category \in {Some("cool"), Some("hot")}
        \/ mc[1] = "ground" /\ mc[2].ground_tolerance = 75
                            /\ mc[2].ground_lab = Some(rgb_to_lab(GREY))
        \/ mc[1] = "sepia"}

\* bodies of mask and export requests: each mode with its required parameter
ModeBodies ==
    {[mode |-> "value", valueRange |-> Some(<<100, 140>>)],
     [mode |-> "hue", hue |-> Some(0)],
     [mode |-> "cluster", clusterRankIndex |-> Some(0)],
     [mode |-> "temperature", temperatureCategory |-> Some("cool")],
     [mode |-> "ground", groundLab |-> Some(rgb_to_lab(GREY))]}

\* and a mask request for the views that can be rendered, at analysis size
MaskBodies ==
    ModeBodies
    \cup {[mode |-> "cluster", clusterRankIndex |-> Some(0),
           views |-> Some(<<WASH, EXTRACT>>), upscale |-> FALSE]}

GroundRequest(id, source, rank, lab) ==
    [analysisId |-> id, groundSource |-> source, clusterRankIndex |-> rank,
     groundLab |-> lab, groundTolerance |-> 60]

GroundRequests ==
    {GroundRequest(id, "detected", None, None) : id \in Ids}
    \cup {GroundRequest(id, "cluster", r, None) : id \in Ids, r \in {None, Some(0), Some(DEFAULT_K)}}
    \cup {GroundRequest(id, "lab", None, g) : id \in Ids, g \in {None, Some(rgb_to_lab(SKY))}}

Idle == [op |-> "none"]

\* the threads calling the store, and a thread that is in no call
Threads == 1 .. MaxThreads
NoCall == [pc |-> "idle"]

\* `running` is the call of the store each thread is in; `put` is, for each
\* id, the result most recently added under it
Init ==
    /\ store = EmptyDict
    /\ issued = 0
    /\ resp = Idle
    /\ running = [t \in Threads |-> NoCall]
    /\ put = EmptyDict

\* POST /analyze
Analyze ==
    /\ issued < MaxAnalyses
    /\ \E upload \in Uploads : \E fit \in FitsFor(upload.file) :
        \E h \in {analyze(store, upload, fit, issued + 1)} :
            /\ store' = h.items
            /\ issued' = IF h.response.status = 200 THEN issued + 1 ELSE issued
            /\ resp' = [op |-> "analyze", upload |-> upload, http |-> h.response,
                        calls |-> h.calls]
    /\ UNCHANGED <<running, put>>

\* analyze_image called directly
AnalyzeImage ==
    /\ issued < MaxAnalyses
    /\ \E file \in ServiceFiles : \E fit \in FitsFor(file) :
        \E done \in {analyze_image(store, file, fit, issued + 1)} :
            /\ store' = done.items
            /\ issued' = IF done.ret.ok THEN issued + 1 ELSE issued
            /\ resp' = [op |-> "analyze_image", file |-> file, ret |-> done.ret]
    /\ UNCHANGED <<running, put>>

\* POST /mask
Mask ==
    /\ \E id \in Ids : \E body \in MaskBodies :
        \E request \in {ParseRequest(MaskRequestDefaults, ("analysisId" :> id) @@ body)} :
            \E h \in {mask(store, request)} :
                /\ store' = h.items
                /\ resp' = [op |-> "mask", id |-> id, request |-> request,
                            present |-> id \in DOMAIN store,
                            http |-> h.response, calls |-> h.calls]
    /\ UNCHANGED <<issued, running, put>>

\* POST /export
Export ==
    /\ \E id \in Ids : \E body \in ModeBodies :
        \E request \in {ParseRequest(ExportRequestDefaults, ("analysisId" :> id) @@ body)} :
            \E h \in {export(store, request)} :
                /\ store' = h.items
                /\ resp' = [op |-> "export", id |-> id, request |-> request,
                            present |-> id \in DOMAIN store,
                            http |-> h.response, calls |-> h.calls]
    /\ UNCHANGED <<issued, running, put>>

NoCv == [objects |-> None, edge_band |-> None]

\* POST /ground-inside
GroundInside ==
    /\ \E request \in GroundRequests :
        \E cv \in IF request.analysisId \in DOMAIN store
                  THEN CvMaps(store[request.analysisId].analysis_array)
                  ELSE {NoCv} :
            \E h \in {ground_inside(store, request, cv)} :
                /\ store' = h.items
                /\ resp' = [op |-> "ground_inside", id |-> request.analysisId,
                            http |-> h.response, calls |-> h.calls]
    /\ UNCHANGED <<issued, running, put>>

\* store.get(id)
Get ==
    /\ \E id \in Ids :
        resp' = [op |-> "get", id |-> id, ret |-> StoreGet(store, id)]
    /\ UNCHANGED <<store, issued, running, put>>

\* store.remove(id)
Remove ==
    /\ \E id \in Ids :
        /\ store' = StoreRemove(store, id)
        /\ resp' = [op |-> "remove", id |-> id]
    /\ UNCHANGED <<issued, running, put>>

\* generate_mask on a stored result
GenerateMask ==
    /\ \E id \in DOMAIN store : \E mc \in ServiceMaskCalls :
        resp' = [op |-> "generate_mask", id |-> id, mode |-> mc[1], params |-> mc[2],
                 ret |-> generate_mask(store[id], mc[1], mc[2])]
    /\ UNCHANGED <<store, issued, running, put>>

\* render_views on a stored result and a mask of its analysis shape
RenderViews ==
    /\ \E id \in DOMAIN store : \E m \in BoolArrays(store[id].analysis_array) :
        \E views \in ViewLists : \E upscale \in BOOLEAN :
            \E r \in {render_views(store[id], m, views, upscale)} :
                /\ store' = [store EXCEPT ![id] = r.result]
                /\ resp' = [op |-> "render_views", id |-> id, mask |-> m, views |-> views,
                            upscale |-> upscale, ret |-> r.ret]
    /\ UNCHANGED <<issued, running, put>>

\* detect_ground_cluster on a stored result
DetectGround ==
    /\ \E id \in DOMAIN store :
        resp' = [op |-> "detect_ground_cluster", id |-> id,
                 ret |-> detect_ground_cluster(store[id])]
    /\ UNCHANGED <<store, issued, running, put>>

\* ground_mask_from_cluster on a stored result
GroundMaskFromCluster ==
    /\ \E id \in DOMAIN store : \E r \in {-DEFAULT_K - 1, -1, 0, DEFAULT_K} :
        resp' = [op |-> "ground_mask_from_cluster", id |-> id, ranked_index |-> r,
                 ret |-> ground_mask_from_cluster(store[id], r, 60)]
    /\ UNCHANGED <<store, issued, running, put>>

\* ground_inside_forms_mask on a stored result and a ground mask
GroundInsideForms ==
    /\ \E id \in DOMAIN store : \E m \in BoolArrays(store[id].analysis_array) :
        \E cv \in CvMaps(store[id].analysis_array) :
            resp' = [op |-> "ground_inside_forms_mask", id |-> id, mask |-> m, cv |-> cv,
                     ret |-> ground_inside_forms_mask(store[id], m, cv)]
    /\ UNCHANGED <<store, issued, running, put>>

Next ==
    \/ Analyze
    \/ AnalyzeImage
    \/ Mask
    \/ Export
    \/ GroundInside
    \/ Get
    \/ Remove
    \/ GenerateMask
    \/ RenderViews
    \/ DetectGround
    \/ GroundMaskFromCluster
    \/ GroundInsideForms

Spec == Init /\ [][Next]_vars

(***************************************************************************)
(* One run of the pipeline on a small image, pixel by pixel: analyze_image *)
(* on the image, then one call of generate_mask on its result.            *)
(***************************************************************************)
\* the colours of the small images
Palette == {GREY, RED}

\* gh x gw grids of at most MaxCells cells, and the pixel shape of a cell
PixelGrids == {g \in (1 .. 2) \X (1 .. MaxCells) : g[1] * g[2] <= MaxCells}
CellShapes == {<<1, 1>>, <<2, 3>>}

PixelImages ==
    UNION {{Array(<<g[1] * cs[1], g[2] * cs[2]>>, g, at) :
                cs \in CellShapes, at \in [Cells(g) -> Palette]} : g \in PixelGrids}

\* analyze_image on a small image
PxAnalyze ==
    /\ resp = Idle
    /\ \E img \in PixelImages : \E fit \in FitsFor(ImageFile(img)) :
        \E done \in {analyze_image(store, ImageFile(img), fit, issued + 1)} :
            /\ store' = done.items
            /\ issued' = IF done.ret.ok THEN issued + 1 ELSE issued
            /\ resp' = [op |-> "analyze_image", file |-> ImageFile(img), ret |-> done.ret]
    /\ UNCHANGED <<running, put>>

\* generate_mask on the result of the run
PxGenerateMask ==
    /\ resp.op = "analyze_image"
    /\ \E id \in DOMAIN store : \E mc \in MaskCalls :
        resp' = [op |-> "generate_mask", result |-> store[id], mode |-> mc[1],
                 params |-> mc[2], ret |-> generate_mask(store[id], mc[1], mc[2])]
    /\ UNCHANGED <<store, issued, running, put>>

\* The hand-built result of tests/test_masks.py (make_dummy_result), with
\* any label map over three cells and the cluster records in any order
DummyResults ==
    {[labels |-> Array(<<1, 3>>, <<1, 3>>, lb),
      clusters |-> [i \in 1 .. 3 |-> ClusterInfo(order[i], <<500, 0, 0>>, <<500, 0, 0>>, 1)]] :
        lb \in [Cells(<<1, 3>>) -> 0 .. 2],
        order \in {o \in [1 .. 3 -> 0 .. 2] : \A i, j \in 1 .. 3 : o[i] = o[j] => i = j}}

\* generate_mask in cluster mode on a hand-built result
PxGenerateMaskDummy ==
    /\ resp = Idle
    /\ \E result \in DummyResults : \E r \in -1 .. 3 :
        resp' = [op |-> "generate_mask", result |-> result, mode |-> "cluster",
                 params |-> [MaskParams EXCEPT !.cluster_rank_index = Some(r)],
                 ret |-> generate_mask(result, "cluster",
                                       [MaskParams EXCEPT !.cluster_rank_index = Some(r)])]
    /\ UNCHANGED <<store, issued, running, put>>

\* L* samples: inside [0, 100], on its ends, and outside it
LSamples == {-3, 0, 504, 1000, 1004}

\* angles np.arctan2 returns, in tenths of a degree
AngleSamples == {-1799, -951, -1, 0, 400, 1800}

RowGrids == {<<1, n>> : n \in 1 .. MaxCells}

LChannels ==
    UNION {{Array(<<2, 3 * g[2]>>, g, at) : at \in [Cells(g) -> LSamples]} : g \in RowGrids}

HChannels ==
    UNION {{Array(<<2, 3 * g[2]>>, g, [c \in Cells(g) |-> HueOfAngle(at[c])]) :
                at \in [Cells(g) -> AngleSamples]} : g \in RowGrids}

\* compute_value_histogram on an L* channel
PxValueHistogram ==
    /\ resp = Idle
    /\ \E L \in LChannels :
        resp' = [op |-> "compute_value_histogram", L |-> L,
                 ret |-> compute_value_histogram(L, VALUE_BINS)]
    /\ UNCHANGED <<store, issued, running, put>>

\* compute_hue_histogram on a hue channel
PxHueHistogram ==
    /\ resp = Idle
    /\ \E H \in HChannels :
        resp' = [op |-> "compute_hue_histogram", H |-> H,
                 ret |-> compute_hue_histogram(H, HUE_BINS)]
    /\ UNCHANGED <<store, issued, running, put>>

\* LCh pixels: chroma below, at and above the default neutral chroma; hues
\* at 0, inside the default warm span, on its ends, and outside it
LchSamples ==
    {<<532, ch, h>> : ch \in {34, 80, 1046}, h \in {0, 400, 600, 631, 1800, 3000, 3599}}

LchArrays ==
    UNION {{Array(<<1, g[2]>>, g, at) : at \in [Cells(g) -> LchSamples]} :
              g \in {<<1, 1>>, <<1, 2>>}}

\* warm spans below, in and above [0, 180], and neutral chromas
WarmSpans == {-100, 0, 600, 1800, 2000}
NeutralChromas == {0, 80}

\* classify_temperature on an LCh array
PxClassifyTemperature ==
    /\ resp = Idle
    /\ \E lch \in LchArrays : \E warm_span \in WarmSpans : \E neutral_chroma \in NeutralChromas :
        resp' = [op |-> "classify_temperature", lch |-> lch, warm_span |-> warm_span,
                 neutral_chroma |-> neutral_chroma,
                 ret |-> classify_temperature(lch, warm_span, neutral_chroma)]
    /\ UNCHANGED <<store, issued, running, put>>

\* detect_ground_cluster on the result of the run
PxDetectGround ==
    /\ resp.op = "analyze_image"
    /\ \E id \in DOMAIN store :
        resp' = [op |-> "detect_ground_cluster", result |-> store[id],
                 ret |-> detect_ground_cluster(store[id])]
    /\ UNCHANGED <<store, issued, running, put>>

\* Cluster lists in rank order whose centres lie about the ends of the
\* ground's lightness range and chroma limit
GroundCentres == {<<l, ch, 0>> : l \in {349, 350, 650, 651}, ch \in {79, 80}}
RankedCounts == {<<3, 2, 1>>, <<2, 2, 2>>, <<4, 1, 1>>, <<6, 0, 0>>}

GroundResults ==
    {[clusters |-> [i \in 1 .. 3 |-> ClusterInfo(order[i], lch[i], lch[i], counts[i])]] :
        lch \in [1 .. 3 -> GroundCentres], counts \in RankedCounts,
        order \in {<<0, 1, 2>>, <<2, 0, 1>>}}

\* detect_ground_cluster on such a list
PxDetectGroundOn ==
    /\ resp = Idle
    /\ \E result \in GroundResults :
        resp' = [op |-> "detect_ground_cluster", result |-> result,
                 ret |-> detect_ground_cluster(result)]
    /\ UNCHANGED <<store, issued, running, put>>

\* ground_inside_forms_mask on the result of the run, an image of at most two
\* cells, and a ground mask
PxGroundInsideForms ==
    /\ resp.op = "analyze_image"
    /\ \E id \in DOMAIN store :
        /\ Cardinality(Cells(store[id].analysis_array.grid)) <= 2
        /\ \E m \in BoolArrays(store[id].analysis_array) :
            \E cv \in CvMaps(store[id].analysis_array) :
                resp' = [op |-> "ground_inside_forms_mask", result |-> store[id],
                         mask |-> m, cv |-> cv,
                         ret |-> ground_inside_forms_mask(store[id], m, cv)]
    /\ UNCHANGED <<store, issued, running, put>>

\* base hues 11 and 12 degrees from a hue of LchSamples, directly and across
\* 0 degrees
BaseHues == {510, 520, 3480, 3490}

\* the keyword arguments of a hue-mode call: the hue alone, or the hue and
\* a tolerance
HueKeywords ==
    {[hue |-> Some(b)] : b \in BaseHues}
    \cup {[hue |-> Some(b), hue_tolerance |-> t] : b \in BaseHues, t \in {100, 120}}

\* generate_mask(result, "hue", **kwargs) on a result with the given LCh array
PxGenerateMaskHue ==
    /\ resp = Idle
    /\ \E lch \in LchArrays : \E kwargs \in HueKeywords :
        resp' = [op |-> "generate_mask(**kwargs)", result |-> [lch_array |-> lch],
                 mode |-> "hue", kwargs |-> kwargs,
                 ret |-> CallGenerateMask([lch_array |-> lch], "hue", kwargs)]
    /\ UNCHANGED <<store, issued, running, put>>

\* LCh colours: chroma below, at and above 8; hues on and beside 60, 240 and
\* 300 degrees, and the colour of SKY
LabelSamples ==
    {<<605, ch, h>> : ch \in {34, 79, 80, 311},
                      h \in {0, 600, 601, 2399, 2400, 2649, 2999, 3000, 3599}}

\* _temperature_label and match_color's classification of one colour
PxTemperatureLabel ==
    /\ resp = Idle
    /\ \E lch \in LabelSamples :
        resp' = [op |-> "_temperature_label", lch |-> lch,
                 ret |-> _temperature_label(lch), temp_label |-> temp_label(lch)]
    /\ UNCHANGED <<store, issued, running, put>>

NextPixels ==
    \/ PxTemperatureLabel
    \/ PxGenerateMaskHue
    \/ PxGroundInsideForms
    \/ PxDetectGround
    \/ PxDetectGroundOn
    \/ PxClassifyTemperature
    \/ PxAnalyze
    \/ PxGenerateMask
    \/ PxGenerateMaskDummy
    \/ PxValueHistogram
    \/ PxHueHistogram

SpecPixels == Init /\ [][NextPixels]_vars

(***************************************************************************)
(* The functions of the pipeline that depend on the image's size only      *)
(***************************************************************************)
\* edge lengths: below, at and above MAX_ANALYSIS_EDGE, and 2156 with its
\* divisors, where the scaled edge falls short of 1600
EdgeLengths == {1, 2, 539, 600, 800, 1078, 1599, 1600, 1601, 2156, 3200}

\* downsample_image on an h x w image
Downsample ==
    /\ \E h \in EdgeLengths : \E w \in EdgeLengths :
        resp' = [op |-> "downsample_image", image |-> Uniform(h, w, GREY),
                 ret |-> downsample_image(Uniform(h, w, GREY), MAX_ANALYSIS_EDGE)]
    /\ UNCHANGED <<store, issued, running, put>>

NextSizes == Downsample

SpecSizes == Init /\ [][NextSizes]_vars

(***************************************************************************)
(* The palette matcher on its own                                          *)
(***************************************************************************)
\* Lab colours to match: the colours of the model's images; palette entries
\* themselves; and colours at equal distance from two entries
LabSamples ==
    {rgb_to_lab(GREY), rgb_to_lab(RED), rgb_to_lab(SKY),
     <<0, 0, 0>>, <<1000, 0, 0>>,
     PALETTE[1].lab, PALETTE[11].lab, PALETTE[12].lab, PALETTE[31].lab,
     <<388, -33, 190>>, <<388, 9, 176>>, <<386, 2, 351>>, <<357, 2, -13>>,
     <<315, -68, -20>>, <<388, -54, 197>>}

\* values of top_n: none, fewer than the palette, all of it, more than it
TopNs == {-1, 0, 1, 2, 3, 4, Len(PALETTE) - 1, Len(PALETTE), Len(PALETTE) + 1}

\* match_palette on a Lab colour
MatchPalette ==
    /\ resp = Idle
    /\ \E lab_color \in LabSamples : \E top_n \in TopNs :
        \E r \in {match_palette(lab_color, top_n)} :
            resp' = [op |-> "match_palette", lab_color |-> lab_color, top_n |-> top_n,
                     ret |-> r]
    /\ UNCHANGED <<store, issued, running, put>>

NextPalette == MatchPalette

SpecPalette == Init /\ [][NextPalette]_vars

(***************************************************************************)
(* The store called from several threads.  A step is one operation on the  *)
(* dict self._items, which the interpreter runs whole: add is one item     *)
(* assignment and remove one pop, get is a membership test followed by an  *)
(* item lookup.                                                            *)
(***************************************************************************)
StoreIds == {1, 2}

\* the results added under an id: the analyses of two uniform images
ResultsOf(id) ==
    UNION {{BuildResult(ImageFile(Uniform(2, 3, rgb)), fit, id).value :
                fit \in FitsFor(ImageFile(Uniform(2, 3, rgb)))} : rgb \in {GREY, RED}}

\* a thread may start a call when it is in none or has returned from one
Callable(t) == running[t].pc \in {"idle", "done"}

\* self._items[key], which raises KeyError itself for a key that is none
DictGetItem(items, key) ==
    IF key \in DOMAIN items THEN Ok(items[key]) ELSE Raise("KeyError", key)

\* store.add(result)
ThreadAdd ==
    /\ \E t \in Threads : \E id \in StoreIds : \E result \in ResultsOf(id) :
        /\ Callable(t)
        /\ store' = StoreAdd(store, result)
        /\ put' = [i \in DOMAIN put \cup {id} |-> IF i = id THEN result ELSE put[i]]
        /\ running' = [running EXCEPT ![t] = [pc |-> "done", op |-> "add", id |-> id,
                                           ret |-> Ok(result)]]
    /\ UNCHANGED <<issued, resp>>

\* store.get(id), the test `analysis_id not in self._items`
ThreadGetTest ==
    /\ \E t \in Threads : \E id \in StoreIds :
        /\ Callable(t)
        /\ running' = [running EXCEPT ![t] =
                        IF id \notin DOMAIN store
                        THEN [pc |-> "done", op |-> "get", id |-> id, ret |-> StoreGet(store, id)]
                        ELSE [pc |-> "getitem", op |-> "get", id |-> id]]
    /\ UNCHANGED <<store, issued, resp, put>>

\* store.get(id), the lookup `return self._items[analysis_id]`
ThreadGetItem ==
    /\ \E t \in Threads :
        /\ running[t].pc = "getitem"
        /\ running' = [running EXCEPT ![t] = [pc |-> "done", op |-> "get", id |-> running[t].id,
                                           ret |-> DictGetItem(store, running[t].id)]]
    /\ UNCHANGED <<store, issued, resp, put>>

\* store.remove(id)
ThreadRemove ==
    /\ \E t \in Threads : \E id \in StoreIds :
        /\ Callable(t)
        /\ store' = StoreRemove(store, id)
        /\ running' = [running EXCEPT ![t] = [pc |-> "done", op |-> "remove", id |-> id,
                                           ret |-> Ok(None)]]
    /\ UNCHANGED <<issued, resp, put>>

NextStore ==
    \/ ThreadAdd
    \/ ThreadGetTest
    \/ ThreadGetItem
    \/ ThreadRemove

SpecStore == Init /\ [][NextStore]_vars

(***************************************************************************)
(* Properties                                                              *)
(***************************************************************************)
\* the last step was a successful generate_mask in the given mode
MaskedIn(mode) == resp.op = "generate_mask" /\ resp.mode = mode /\ resp.ret.ok

\* the number of cells of a boolean array that are true
TrueCells(m) == {c \in Cells(m.grid) : m.at[c]}

\* C1: generate_mask in cluster mode with a rank index r within the cluster
\* list returns a boolean mask of the label map's shape that is true exactly
\* at the pixels whose label is the original cluster id of the cluster at
\* rank r.
C1_ClusterMaskByRank ==
    (/\ resp.op = "generate_mask"
     /\ resp.mode = "cluster"
     /\ resp.params.cluster_rank_index # None
     /\ Val(resp.params.cluster_rank_index) \in 0 .. Len(resp.result.clusters) - 1)
    => /\ resp.ret.ok
       /\ resp.ret.value.shape = resp.result.labels.shape
       /\ \A c \in Cells(resp.result.labels.grid) :
            /\ resp.ret.value.at[c] \in BOOLEAN
            /\ resp.ret.value.at[c] <=>
                 resp.result.labels.at[c] =
                   resp.result.clusters[Val(resp.params.cluster_rank_index) + 1].index

\* a cluster mask at a rank whose cluster has another original id than the
\* rank, selecting some pixels and not others
C1_Witness ==
    /\ MaskedIn("cluster")
    /\ resp.result.clusters[Val(resp.params.cluster_rank_index) + 1].index
         # Val(resp.params.cluster_rank_index)
    /\ TrueCells(resp.ret.value) # {}
    /\ TrueCells(resp.ret.value) # Cells(resp.ret.value.grid)

\* C2: generate_mask in ground mode marks a pixel true exactly when the
\* Euclidean distance from its Lab value to the target is at most the
\* tolerance; with every pixel at the target and tolerance 0.5 the mask is
\* all true.
C2_GroundMaskByDistance ==
    (/\ resp.op = "generate_mask"
     /\ resp.mode = "ground"
     /\ resp.params.ground_lab # None)
    => /\ resp.ret.ok
       /\ \A c \in Cells(resp.result.lab_array.grid) :
            resp.ret.value.at[c] <=>
                /\ resp.params.ground_tolerance >= 0
                /\ Dist2(resp.result.lab_array.at[c], Val(resp.params.ground_lab))
                     <= resp.params.ground_tolerance * resp.params.ground_tolerance
       /\ (/\ resp.params.ground_tolerance = 5
           /\ Values(resp.result.lab_array) = {Val(resp.params.ground_lab)})
          => TrueCells(resp.ret.value) = Cells(resp.ret.value.grid)

\* a ground mask with a positive tolerance that takes some pixels (not all
\* of them at the target) and leaves others
C2_Witness ==
    /\ MaskedIn("ground")
    /\ resp.params.ground_tolerance > 0
    /\ TrueCells(resp.ret.value) # {}
    /\ TrueCells(resp.ret.value) # Cells(resp.ret.value.grid)
    /\ \E c \in TrueCells(resp.ret.value) :
         resp.result.lab_array.at[c] # Val(resp.params.ground_lab)

\* C3: get of an id that is no key of the store raises KeyError and leaves
\* the mapping as it was; the mask, export and ground-inside handlers answer
\* such an id with 404, having called store.get and nothing else.
C3_UnknownIdNotFound ==
    [][(resp'.op \in {"get", "mask", "export", "ground_inside"} /\ resp'.id \notin DOMAIN store)
       => /\ store' = store
          /\ resp'.op = "get" => ~resp'.ret.ok /\ resp'.ret.error.type = "KeyError"
          /\ resp'.op # "get" => resp'.http.status = 404 /\ resp'.calls = <<"store.get">>]_vars

\* the mask handler answering 404 for an id that was issued and removed
C3_Witness ==
    /\ resp.op = "mask"
    /\ resp.http.status = 404
    /\ resp.id \in 1 .. issued
    /\ DOMAIN store # {}

\* C4: a stored result stays in the store, unchanged and returned by get,
\* over every step that is not remove of its own id.
C4_StoredUntilRemoved ==
    [][\A id \in DOMAIN store :
          \/ resp'.op = "remove" /\ resp'.id = id
          \/ /\ id \in DOMAIN store'
             /\ store'[id] = store[id]
             /\ StoreGet(store', id) = Ok(store[id])]_vars

\* the first result still stored after a second analysis was added and
\* removed again
C4_Witness ==
    /\ resp.op = "remove"
    /\ resp.id = 2
    /\ issued = 2
    /\ DOMAIN store = {1}

\* C5: analyze_image on bytes that are no image raises PIL's
\* UnidentifiedImageError; an analysis that fails, there or later, leaves the
\* store as it was, and one that succeeds adds one entry under a new id and
\* changes no other.
C5_FailedAnalyzeAddsNothing ==
    [][resp'.op \in {"analyze", "analyze_image"}
       => LET file == IF resp'.op = "analyze" THEN resp'.upload.file ELSE resp'.file
              succeeded == IF resp'.op = "analyze" THEN resp'.http.status = 200
                           ELSE resp'.ret.ok
          IN  /\ (~file.readable /\ resp'.op = "analyze_image")
                 => ~resp'.ret.ok /\ resp'.ret.error.type = "UnidentifiedImageError"
              /\ ~file.readable => ~succeeded
              /\ ~succeeded => store' = store
              /\ succeeded
                 => /\ Cardinality(DOMAIN store' \ DOMAIN store) = 1
                    /\ DOMAIN store \subseteq DOMAIN store'
                    /\ \A id \in DOMAIN store : store'[id] = store[id]]_vars

\* an analysis that failed after decoding, at the clustering, with a result
\* of an earlier analysis in the store
C5_Witness ==
    /\ resp.op = "analyze_image"
    /\ ~resp.ret.ok
    /\ resp.ret.error.type = "ValueError"
    /\ DOMAIN store # {}

\* C6: generate_mask, render_views, detect_ground_cluster,
\* ground_mask_from_cluster and ground_inside_forms_mask, whether they return
\* or raise, leave every stored AnalysisResult and the store's mapping as
\* they were.
C6_ResultNeverMutated ==
    [][resp'.op \in {"generate_mask", "render_views", "detect_ground_cluster",
                     "ground_mask_from_cluster", "ground_inside_forms_mask"}
       => store' = store]_vars

\* render_views having drawn the wash view at the original resolution
C6_Witness ==
    /\ resp.op = "render_views"
    /\ resp.ret.ok
    /\ resp.upscale
    /\ WASH \in DOMAIN resp.ret.value
    /\ \E c \in Cells(resp.mask.grid) : ~resp.mask.at[c]

RECURSIVE SumPixelCounts(_, _)
SumPixelCounts(clusters, n) ==
    IF n = 0 THEN 0 ELSE clusters[n].pixel_count + SumPixelCounts(clusters, n - 1)

\* C7: in every analysis result the pixel counts of the clusters add up to
\* the number of pixels of the analysed image, and no cluster has more
\* pixels than the one before it.
C7_CountsSumAndDescend ==
    \A id \in DOMAIN store :
        LET clusters == store[id].clusters
        IN  /\ SumPixelCounts(clusters, Len(clusters)) = Size(store[id].analysis_array)
            /\ \A i, j \in 1 .. Len(clusters) :
                 i < j => clusters[i].pixel_count >= clusters[j].pixel_count

\* a result whose two colours fill clusters of different sizes, the larger
\* one having the larger original id
C7_Witness ==
    \E id \in DOMAIN store :
        /\ store[id].clusters[1].pixel_count > store[id].clusters[2].pixel_count
        /\ store[id].clusters[2].pixel_count > 0
        /\ store[id].clusters[1].index > store[id].clusters[2].index

\* C8: in every analysis result the cluster at position i of the clusters
\* list carries i as its index.
C8_IndexIsRank ==
    \A id \in DOMAIN store :
        \A i \in 1 .. Len(store[id].clusters) : store[id].clusters[i].index = i - 1

RECURSIVE HistTotal(_, _)
HistTotal(hist, bins) ==
    IF bins = {} THEN 0
    ELSE LET i == CHOOSE b \in bins : TRUE
         IN  hist[i] + HistTotal(hist, bins \ {i})

\* C9: the value histogram of an analysed image has its counts in bins
\* 0 .. 255 adding up to the number of pixels, and the hue histogram has its
\* counts in bins 0 .. 359 adding up to it too; so has the value histogram of
\* any L* channel, values outside [0, 100] included, and the hue histogram of
\* any hue channel.
C9_HistogramsCountEveryPixel ==
    /\ \A id \in DOMAIN store :
        /\ DOMAIN store[id].value_histogram \subseteq 0 .. VALUE_BINS - 1
        /\ HistTotal(store[id].value_histogram, DOMAIN store[id].value_histogram)
             = Size(store[id].analysis_array)
        /\ DOMAIN store[id].hue_histogram \subseteq 0 .. HUE_BINS - 1
        /\ HistTotal(store[id].hue_histogram, DOMAIN store[id].hue_histogram)
             = Size(store[id].analysis_array)
    /\ resp.op = "compute_value_histogram"
       => /\ DOMAIN resp.ret \subseteq 0 .. VALUE_BINS - 1
          /\ HistTotal(resp.ret, DOMAIN resp.ret) = Size(resp.L)
    /\ resp.op = "compute_hue_histogram"
       => /\ DOMAIN resp.ret \subseteq 0 .. HUE_BINS - 1
          /\ HistTotal(resp.ret, DOMAIN resp.ret) = Size(resp.H)

\* the value histogram of a channel with L* below 0 and above 100
C9_Witness ==
    /\ resp.op = "compute_value_histogram"
    /\ \E c \in Cells(resp.L.grid) : resp.L.at[c] < 0
    /\ \E c \in Cells(resp.L.grid) : resp.L.at[c] > 1000
    /\ HistAt(resp.ret, 0) > 0
    /\ HistAt(resp.ret, VALUE_BINS - 1) > 0

MaskModes == {"value", "hue", "cluster", "temperature", "ground"}

RequiredParam(mode) ==
    CASE mode = "value" -> "value_range"
      [] mode = "hue" -> "hue"
      [] mode = "cluster" -> "cluster_rank_index"
      [] mode = "temperature" -> "temperature_category"
      [] mode = "ground" -> "ground_lab"

MissingParameter(mode) ==
    Raise("ValueError",
          CASE mode = "value" -> "value_range required for value mask"
            [] mode = "hue" -> "hue required for hue mask"
            [] mode = "cluster" -> "cluster_rank_index required for cluster mask"
            [] mode = "temperature" -> "temperature_category required"
            [] mode = "ground" -> "ground_lab required for ground mask")

\* the value range is a pair and the category a non-empty string, when given
ParamsTyped(p) ==
    /\ p.value_range # None => Len(Val(p.value_range)) = 2
    /\ p.temperature_category # None => Val(p.temperature_category) # ""

\* the call without the keyword arguments of the other modes
OwnParams(mode, p) ==
    [f \in DOMAIN MaskParams |-> IF f \in ModeParams(mode) THEN p[f] ELSE MaskParams[f]]

\* C11: in each of the five modes generate_mask raises the error that names
\* the mode's required parameter, and returns no mask, exactly when that
\* parameter is absent; hue 0, rank index 0 and the value range (0, 0) are
\* present and yield a mask; and the outcome is the one of the same call
\* without the parameters of the other modes.
C11_MissingParameter ==
    (/\ resp.op = "generate_mask"
     /\ resp.mode \in MaskModes
     /\ ParamsTyped(resp.params))
    => /\ resp.ret = MissingParameter(resp.mode)
            <=> resp.params[RequiredParam(resp.mode)] = None
       /\ resp.params[RequiredParam(resp.mode)] = None => ~resp.ret.ok
       /\ (\/ resp.mode = "hue" /\ resp.params.hue = Some(0)
           \/ resp.mode = "cluster" /\ resp.params.cluster_rank_index = Some(0)
           \/ resp.mode = "value" /\ resp.params.value_range = Some(<<0, 0>>))
            => resp.ret.ok
       /\ resp.ret = generate_mask(resp.result, resp.mode, OwnParams(resp.mode, resp.params))

\* a hue mask asked for without a hue, the parameters of the other modes given
C11_Witness ==
    /\ resp.op = "generate_mask"
    /\ resp.mode = "hue"
    /\ resp.params.hue = None
    /\ resp.params.cluster_rank_index = Some(0)
    /\ resp.params.value_range = Some(<<0, 0>>)
    /\ resp.ret = MissingParameter("hue")

RangeError == Raise("ValueError", "cluster_rank_index out of range")
InvalidMode == Raise("ValueError", "Unknown mode")

PaletteIndex(id) == CHOOSE i \in 1 .. Len(PALETTE) : PALETTE[i].id = id

\* C13: for a top_n of 0 or more, match_palette returns min(top_n, palette
\* size) entries, each a palette entry with its distance to the colour, in
\* non-decreasing order of distance and, at equal distance, in palette
\* order; no entry left out is closer than, or equally close to and earlier
\* in the palette than, an entry returned.
C13_PaletteMatchOrder ==
    (resp.op = "match_palette" /\ resp.top_n >= 0)
    => /\ Len(resp.ret) = (IF resp.top_n < Len(PALETTE) THEN resp.top_n ELSE Len(PALETTE))
       /\ Len(resp.ret) <= resp.top_n
       /\ \A i \in 1 .. Len(resp.ret) :
            /\ \E e \in 1 .. Len(PALETTE) : PALETTE[e].id = resp.ret[i].id
            /\ resp.ret[i].lab = PALETTE[PaletteIndex(resp.ret[i].id)].lab
            /\ resp.ret[i].deltaE = delta_e(resp.lab_color, resp.ret[i].lab)
       /\ \A i, j \in 1 .. Len(resp.ret) :
            i < j => \/ resp.ret[i].deltaE < resp.ret[j].deltaE
                     \/ /\ resp.ret[i].deltaE = resp.ret[j].deltaE
                        /\ PaletteIndex(resp.ret[i].id) < PaletteIndex(resp.ret[j].id)
       /\ \A e \in 1 .. Len(PALETTE) :
            (\A i \in 1 .. Len(resp.ret) : resp.ret[i].id # PALETTE[e].id)
            => \A i \in 1 .. Len(resp.ret) :
                  \/ resp.ret[i].deltaE < delta_e(resp.lab_color, PALETTE[e].lab)
                  \/ /\ resp.ret[i].deltaE = delta_e(resp.lab_color, PALETTE[e].lab)
                     /\ PaletteIndex(resp.ret[i].id) < e

\* three matches asked for, the third at the same distance as an entry left out
C13_Witness ==
    /\ resp.op = "match_palette"
    /\ resp.top_n = 3
    /\ Len(resp.ret) = 3
    /\ resp.ret[1].deltaE < resp.ret[2].deltaE
    /\ \E e \in 1 .. Len(PALETTE) :
        /\ PALETTE[e].id # resp.ret[3].id
        /\ delta_e(resp.lab_color, PALETTE[e].lab) = resp.ret[3].deltaE

\* the height and width render_views is to render at
RenderShape(result, upscale) ==
    IF upscale /\ ~IsOne(result.downscale_ratio) THEN result.original_array.shape
    ELSE result.analysis_array.shape

\* C14: render_views on a mask of the analysis size renders the wash and
\* extract views at the original size, from the original image and the mask
\* upsampled to it, exactly when upscale is true and the downscale ratio is
\* not 1.0, and at the analysis size from the analysis image and the mask as
\* given otherwise; every view returned has that height and width and the
\* mask's cells.
C14_RenderResolution ==
    (/\ resp.op = "render_views"
     /\ \A i \in 1 .. Len(resp.views) : resp.views[i] \in {WASH, EXTRACT})
    => /\ resp.ret.ok
       /\ DOMAIN resp.ret.value = {resp.views[i] : i \in 1 .. Len(resp.views)}
       /\ \A v \in DOMAIN resp.ret.value :
            /\ resp.ret.value[v].pixels.shape = RenderShape(store[resp.id], resp.upscale)
            /\ resp.ret.value[v].pixels.grid = resp.mask.grid
       /\ EXTRACT \in DOMAIN resp.ret.value =>
            \A c \in Cells(resp.mask.grid) :
                resp.ret.value[EXTRACT].pixels.at[c][4] = (IF resp.mask.at[c] THEN 255 ELSE 0)
       /\ (resp.upscale /\ ~IsOne(store[resp.id].downscale_ratio))
            <=> \A v \in DOMAIN resp.ret.value :
                   resp.ret.value[v].pixels.shape # store[resp.id].analysis_array.shape

\* the views of a downsampled image rendered at its original size
C14_Witness ==
    /\ resp.op = "render_views"
    /\ resp.upscale
    /\ resp.ret.ok
    /\ EXTRACT \in DOMAIN resp.ret.value
    /\ store[resp.id].analysis_array.shape # store[resp.id].original_array.shape
    /\ resp.mask.shape = store[resp.id].analysis_array.shape
    /\ resp.ret.value[EXTRACT].pixels.shape = store[resp.id].original_array.shape

\* C15: rendering the highlight view with a mask of the base image's height
\* and width succeeds, and in the image returned every masked pixel is, per
\* channel, 0.6 of (255, 64, 64) plus 0.4 of the base pixel and every
\* unmasked pixel is the base pixel.
C15_HighlightBlend ==
    (/\ resp.op = "render_views"
     /\ resp.views = <<HIGHLIGHT>>
     /\ ~resp.upscale
     /\ resp.mask.shape = store[resp.id].analysis_array.shape)
    => /\ resp.ret.ok
       /\ DOMAIN resp.ret.value = {HIGHLIGHT}
       /\ \A c \in Cells(resp.mask.grid) :
            resp.ret.value[HIGHLIGHT].pixels.at[c] =
                (IF resp.mask.at[c]
                 THEN <<Blend(store[resp.id].analysis_array.at[c][1], 1),
                        Blend(store[resp.id].analysis_array.at[c][2], 2),
                        Blend(store[resp.id].analysis_array.at[c][3], 3)>>
                 ELSE store[resp.id].analysis_array.at[c])

\* C16: classify_temperature gives each pixel one class: neutral when its
\* chroma is below neutral_chroma; otherwise warm when its hue is at most
\* the warm span or at least 360 less the warm span, the span clamped to
\* [0, 180]; otherwise cool.
C16_TemperatureClasses ==
    resp.op = "classify_temperature"
    => \A c \in Cells(resp.lch.grid) :
          resp.ret.at[c] =
              (IF resp.lch.at[c][2] < resp.neutral_chroma THEN NEUTRAL
               ELSE IF \/ resp.lch.at[c][3] <= Clip(resp.warm_span, 0, 1800)
                       \/ resp.lch.at[c][3] >= 3600 - Clip(resp.warm_span, 0, 1800)
                    THEN WARM
               ELSE COOL)

\* the ranks (0-based) of the clusters with lightness in [35, 65] and chroma
\* below 8
EligibleRanks(clusters) ==
    {r \in 0 .. Len(clusters) - 1 :
        /\ clusters[r + 1].center_lch[1] >= 350
        /\ clusters[r + 1].center_lch[1] <= 650
        /\ clusters[r + 1].center_lch[2] < 80}

\* C17: detect_ground_cluster returns None exactly when no cluster has LCh
\* lightness in [35, 65] and chroma below 8; otherwise it returns the rank
\* of such a cluster, none of the others of them having more pixels.
C17_GroundClusterDetected ==
    resp.op = "detect_ground_cluster"
    => /\ resp.ret = None <=> EligibleRanks(resp.result.clusters) = {}
       /\ resp.ret # None =>
            /\ Val(resp.ret) \in EligibleRanks(resp.result.clusters)
            /\ \A r \in EligibleRanks(resp.result.clusters) :
                  resp.result.clusters[r + 1].pixel_count
                      <= resp.result.clusters[Val(resp.ret) + 1].pixel_count

\* the largest cluster of an analysed image is not eligible and the second is
C17_Witness ==
    /\ resp.op = "detect_ground_cluster"
    /\ Len(resp.result.clusters) = DEFAULT_K
    /\ 0 \notin EligibleRanks(resp.result.clusters)
    /\ resp.ret = Some(1)

\* C18: with add, get and remove called from several threads in any
\* interleaving, the mapping changes at an id only by an add or a remove of
\* that id, holds under each id the result most recently added under it,
\* and a get of an id returns that result or raises KeyError.
C18_StoreUnderInterleaving ==
    [][/\ \A y \in StoreIds :
            /\ (y \in DOMAIN store' /\ (y \notin DOMAIN store \/ store'[y] # store[y]))
                => \E t \in Threads :
                      /\ running'[t] = [pc |-> "done", op |-> "add", id |-> y,
                                         ret |-> Ok(store'[y])]
            /\ (y \in DOMAIN store /\ y \notin DOMAIN store')
                => \E t \in Threads :
                      /\ running'[t] = [pc |-> "done", op |-> "remove", id |-> y,
                                         ret |-> Ok(None)]
            /\ y \in DOMAIN store' => y \in DOMAIN put' /\ store'[y] = put'[y]
       /\ \A t \in Threads :
            (running'[t] # running[t] /\ running'[t].op = "get" /\ running'[t].pc = "done")
            => IF running'[t].ret.ok
               THEN /\ running'[t].id \in DOMAIN put
                    /\ running'[t].ret.value = put[running'[t].id]
                    /\ running'[t].ret.value.analysis_id = running'[t].id
               ELSE running'[t].ret = Raise("KeyError", running'[t].id)]_vars

\* a get that found its id is about to look it up, and the id has been removed
C18_Witness ==
    \E t \in Threads :
        /\ running[t].pc = "getitem"
        /\ running[t].id \notin DOMAIN store
        /\ running[t].id \in DOMAIN put
        /\ \E u \in Threads : u # t /\ running[u].pc = "done" /\ running[u].op = "remove"

\* C19: the mask ground_inside_forms_mask returns is true exactly at the
\* pixels that are true in the ground mask and lie in the `objects` map or
\* in the edge band: a ground pixel of the edge band is in it even outside
\* the `objects` map.
C19_FrayedPixelsJoined ==
    resp.op = "ground_inside_forms_mask"
    => \A c \in Cells(resp.mask.grid) :
          resp.ret.at[c] = (resp.mask.at[c] /\ (resp.cv.objects.at[c] \/ resp.cv.edge_band.at[c]))

\* C20: for an image whose longer edge exceeds max_edge, downsample_image
\* returns an image whose height and width are the original ones times
\* max_edge / longer edge, each rounded to the nearest integer, and both
\* are at least 1.
C20_DownsampleRoundsToNearest ==
    (/\ resp.op = "downsample_image"
     /\ Max(resp.image.shape[1], resp.image.shape[2]) > MAX_ANALYSIS_EDGE)
    => /\ resp.ret.ok
       /\ resp.ret.value.image.shape =
            <<RoundHalfEven(resp.image.shape[1] * MAX_ANALYSIS_EDGE,
                            Max(resp.image.shape[1], resp.image.shape[2])),
              RoundHalfEven(resp.image.shape[2] * MAX_ANALYSIS_EDGE,
                            Max(resp.image.shape[1], resp.image.shape[2]))>>
       /\ resp.ret.value.image.shape[1] >= 1
       /\ resp.ret.value.image.shape[2] >= 1

(***************************************************************************)
(* C21: generate_mask in hue mode, called with a hue and no tolerance,     *)
(* uses a tolerance of 12 degrees: the mask is true exactly at the pixels  *)
(* whose circular hue distance from the hue is at most 12 degrees, the     *)
(* default of the request schema.                                          *)
(***************************************************************************)
C21_HueDefaultTolerance ==
    (/\ resp.op = "generate_mask(**kwargs)"
     /\ resp.mode = "hue"
     /\ "hue_tolerance" \notin DOMAIN resp.kwargs)
    => /\ resp.ret.ok
       /\ \A c \in Cells(resp.result.lch_array.grid) :
            resp.ret.value.at[c]
                <=> HueDiff(resp.result.lch_array.at[c][3], Val(resp.kwargs.hue)) <= 120

(***************************************************************************)
(* C22: for an analysis id present in the store and a mask mode supplied   *)
(* with its required parameter, the mask and the export handler complete   *)
(* without error and return one rendered image per requested view, all     *)
(* three views for export.                                                 *)
(***************************************************************************)
C22_MaskAndExportComplete ==
    (resp.op \in {"mask", "export"} /\ resp.present)
    => /\ resp.http.status = 200
       /\ resp.op = "mask"
            => DOMAIN resp.http.body.payload
                   = {ViewsOrDefault(resp.request.views)[i] :
                         i \in 1 .. Len(ViewsOrDefault(resp.request.views))}
       /\ resp.op = "export"
            => {"highlight", "wash", "extract"} \subseteq DOMAIN resp.http.body

\* the cluster-mode mask of a result for a rank index
ClusterMask(result, rank) ==
    generate_mask(result, "cluster", [MaskParams EXCEPT !.cluster_rank_index = Some(rank)])

\* a state after generate_mask in cluster mode, by rank index, on a result
\* analyze_image produced
ClusterMasked ==
    /\ resp.op = "generate_mask"
    /\ resp.mode = "cluster"
    /\ "analysis_id" \in DOMAIN resp.result
    /\ resp.params.cluster_rank_index # None
    /\ Val(resp.params.cluster_rank_index) \in 0 .. Len(resp.result.clusters) - 1

(***************************************************************************)
(* C23: on a result of analyze_image with k clusters, the cluster-mode     *)
(* masks of the rank indices 0 .. k-1 partition the pixels: the mask of    *)
(* rank r has clusters[r].pixel_count true pixels, shares no pixel with    *)
(* the mask of another rank, and every pixel is in the mask of some rank.  *)
(***************************************************************************)
C23_ClusterMasksPartition ==
    ClusterMasked
    => LET result == resp.result
           r == Val(resp.params.cluster_rank_index)
           ranks == 0 .. Len(result.clusters) - 1
       IN  /\ resp.ret.ok
           /\ CountTrue(resp.ret.value) = result.clusters[r + 1].pixel_count
           /\ \A r2 \in ranks \ {r} :
                /\ ClusterMask(result, r2).ok
                /\ \A c \in Cells(result.labels.grid) :
                     ~(resp.ret.value.at[c] /\ ClusterMask(result, r2).value.at[c])
           /\ \A c \in Cells(result.labels.grid) :
                \E r2 \in ranks : ClusterMask(result, r2).ok /\ ClusterMask(result, r2).value.at[c]

\* the mask of the second rank of an image of two colours: some pixels,
\* not all of them
C23_Witness ==
    /\ ClusterMasked
    /\ Val(resp.params.cluster_rank_index) = 1
    /\ resp.ret.ok
    /\ CountTrue(resp.ret.value) > 0
    /\ CountTrue(resp.ret.value) < Size(resp.result.labels)
    /\ CountTrue(resp.ret.value) = resp.result.clusters[2].pixel_count

(***************************************************************************)
(* C24: for every LCh colour, the temperature label of a ground suggestion *)
(* (_temperature_label) is the class classify_temperature gives the colour *)
(* with warm span 60 and neutral chroma 8.                                 *)
(***************************************************************************)
C24_TemperatureLabelsAgree ==
    resp.op = "_temperature_label" => resp.ret = resp.temp_label

====
